---- MODULE Spec2Model ----
(***************************************************************************)
(* Multi-chain liquidity scoring engine of StableRisk                      *)
(* (src/backend/services/liquidity_service.py, EnhancedLiquidityService).  *)
(*                                                                         *)
(* Conventions of the model                                                *)
(*  - Text is a sequence of one-character strings: "USDT/WETH" is          *)
(*    <<"U","S","D","T","/","W","E","T","H">>.                             *)
(*  - Amounts of money are whole thousands of US dollars: 100 is $100,000. *)
(*  - Scores are tenths of a point: 95 is 9.5, 100 is 10.0.                *)
(*  - A float quotient is the exact fraction [num, den] with den > 0.      *)
(*  - Time is counted in ticks, TicksPerHour of them to the hour.          *)
(***************************************************************************)
EXTENDS Integers, Sequences, FiniteSets, TLC

VARIABLES
    cache,      \* self._cache: the gt_pools_<network>_<address> and token_discovery_<coin> keys
    now,        \* datetime.utcnow(), in ticks
    callNo,     \* number of get_comprehensive_liquidity_analysis calls started
    aggPc,      \* per call slot: "idle", "gather", "done", "cancelled"
    addresses,  \* per call slot: the networks of the address map being analysed
    sem,        \* per call slot: value of the asyncio.Semaphore of that call
    taskPc,     \* per call slot and network: position of analyze_chain_bounded
    taskRes,    \* per call slot and network: what the task handed to gather
    taskLog,    \* per call slot and network: statuses the task's requests received
    lastFetch,  \* per network: the latest pool fetch that issued a request
    discovery,  \* the discover_token_addresses call: its probes, semaphore and return value
    limiter,    \* cache_service.local_cache rate-limit counters and the latest answer
    result,     \* per call slot: return value of the call
    arg,        \* pure-function specifications: the input
    ret         \* pure-function specifications: the output

vars == <<cache, now, callNo, aggPc, addresses, sem, taskPc, taskRes, taskLog,
          lastFetch, discovery, limiter, result, arg, ret>>

(***************************************************************************)
(* Bounds                                                                  *)
(***************************************************************************)
MaxNetworks == 3     \* networks of the address map
MaxCalls == 2        \* get_comprehensive_liquidity_analysis calls in one behaviour
MaxCacheNetworks == 1  \* networks of the address maps of SpecCache
MaxCacheCalls == 3   \* calls in one behaviour of SpecCache
MaxOverlap == 2      \* call slots (calls that may be open at once)
MaxTime == 3         \* the clock stops here
TicksPerHour == 2    \* resolution of the clock
MaxPools == 3        \* length of the pool lists the pure functions are applied to

\* Python's None, as a record so that it compares with the result records
NoneVal == [kind |-> "None"]

(***************************************************************************)
(* Exact fractions standing for float quotients                            *)
(***************************************************************************)
Frac(n, d) == [num |-> n, den |-> d]
FracGE(f, k) == f.num >= k * f.den
FracGT(f, k) == f.num > k * f.den
FracLT(f, k) == f.num < k * f.den
FracEq(f, k) == f.num = k * f.den
Max2(a, b) == IF a >= b THEN a ELSE b
Min2(a, b) == IF a <= b THEN a ELSE b

(***************************************************************************)
(* Text: str.lower, str.strip, str.split, the "in" test                    *)
(***************************************************************************)
UpperChars ==
    <<"A","B","C","D","E","F","G","H","I","J","K","L","M","N","O","P","Q","R","S","T","U","V","W","X","Y","Z">>
LowerChars ==
    <<"a","b","c","d","e","f","g","h","i","j","k","l","m","n","o","p","q","r","s","t","u","v","w","x","y","z">>

LowerChar(c) ==
    IF \E i \in 1..26 : UpperChars[i] = c
    THEN LowerChars[CHOOSE i \in 1..26 : UpperChars[i] = c]
    ELSE c

StrLower(s) == [i \in 1..Len(s) |-> LowerChar(s[i])]

IsSpace(c) == c = " "

RECURSIVE LStrip(_)
LStrip(s) == IF s # <<>> /\ IsSpace(Head(s)) THEN LStrip(Tail(s)) ELSE s

RECURSIVE RStrip(_)
RStrip(s) ==
    IF s # <<>> /\ IsSpace(s[Len(s)]) THEN RStrip(SubSeq(s, 1, Len(s) - 1)) ELSE s

StrStrip(s) == RStrip(LStrip(s))

StrContains(s, c) == \E i \in 1..Len(s) : s[i] = c

\* s.split(c): the pieces of s between the occurrences of c (empty pieces kept)
FirstIndex(s, c) == CHOOSE k \in 1..Len(s) : s[k] = c /\ \A j \in 1..(k - 1) : s[j] # c

RECURSIVE StrSplit(_, _)
SplitAt(s, c, i) == <<SubSeq(s, 1, i - 1)>> \o StrSplit(SubSeq(s, i + 1, Len(s)), c)

StrSplit(s, c) == IF ~StrContains(s, c) THEN <<s>> ELSE SplitAt(s, c, FirstIndex(s, c))

(***************************************************************************)
(* _classify_token                                                         *)
(***************************************************************************)
known_stablecoins == {
    <<"u","s","d","t">>, <<"u","s","d","c">>, <<"d","a","i">>, <<"b","u","s","d">>,
    <<"f","r","a","x">>, <<"l","u","s","d">>, <<"u","s","d","d">>, <<"u","s","d","p">>,
    <<"t","u","s","d">>, <<"f","e","i">>, <<"m","i","m">>, <<"u","s","t">>,
    <<"v","a","i">>, <<"g","u","s","d">>, <<"h","u","s","d">>, <<"u","s","d","x">>,
    <<"s","a","i">>, <<"c","u","s","d">>, <<"d","u","s","d">>, <<"o","u","s","d">>,
    <<"m","u","s","d">>, <<"s","u","s","d">>, <<"y","u","s","d">>,
    <<"a","l","u","s","d">>, <<"u","s","d","+">>, <<"d","o","l","a">> }

volatile_symbols == {
    <<"e","t","h">>, <<"w","e","t","h">>, <<"b","t","c">>, <<"w","b","t","c">>,
    <<"b","n","b">>, <<"m","a","t","i","c">>, <<"a","v","a","x">>, <<"s","o","l">> }

\* re.sub(r'^(w|a|c|r)', '', s): one leading w, a, c or r is dropped
StripPrefix(s) ==
    IF s # <<>> /\ Head(s) \in {"w", "a", "c", "r"} THEN Tail(s) ELSE s

\* re.sub(r'(\.e|_e|\-e)$', '', s): a trailing ".e", "_e" or "-e" is dropped
StripSuffix(s) ==
    IF Len(s) >= 2 /\ s[Len(s)] = "e" /\ s[Len(s) - 1] \in {".", "_", "-"}
    THEN SubSeq(s, 1, Len(s) - 2)
    ELSE s

\* the classification of the lower-cased, stripped symbol
ClassifyLower(token_lower) ==
    IF StripSuffix(StripPrefix(token_lower)) \in known_stablecoins THEN "stable"
    ELSE IF token_lower \in volatile_symbols THEN "volatile"
    ELSE "unknown"

classify_token(token_symbol) ==
    IF token_symbol = <<>> THEN "unknown"
    ELSE ClassifyLower(StrStrip(StrLower(token_symbol)))

(***************************************************************************)
(* Pool records, as get_geckoterminal_pools hands them on: the reserve     *)
(* (attributes.reserve_in_usd), the pair name (attributes.name) and the    *)
(* exchange display name (dex_name).  numeric is FALSE for a reserve that  *)
(* float() rejects (a JSON null, a non-numeric string).                    *)
(***************************************************************************)
Pool(r, n, d) == [reserve_in_usd |-> r, numeric |-> TRUE, name |-> n, dex_name |-> d]

BadPool(n, d) == [reserve_in_usd |-> 0, numeric |-> FALSE, name |-> n, dex_name |-> d]

HasBadReserve(pools) == \E i \in 1..Len(pools) : ~pools[i].numeric

\* sum(float(pool.attributes.reserve_in_usd) for pool in pools)
RECURSIVE SumReserves(_)
SumReserves(pools) ==
    IF pools = <<>> THEN 0
    ELSE Head(pools).reserve_in_usd + SumReserves(Tail(pools))

(***************************************************************************)
(* _analyze_pool_composition                                               *)
(***************************************************************************)
StripAll(pieces) == [i \in 1..Len(pieces) |-> StrStrip(pieces[i])]

\* the token symbols taken from the lower-cased pair name
TokensOfName(pool_name) ==
    IF StrContains(pool_name, "/") THEN StripAll(StrSplit(pool_name, "/"))
    ELSE IF StrContains(pool_name, "-") THEN StripAll(StrSplit(pool_name, "-"))
    ELSE <<>>

PoolTokens(pool) == TokensOfName(StrLower(pool.name))

\* the bucket of a pool whose two tokens classify as token1_type and token2_type
BucketOfTypes_any_stable(token1_type, token2_type) ==
    IF token1_type = "stable" /\ token2_type = "stable" THEN "stable_stable"
    ELSE IF token1_type = "stable" \/ token2_type = "stable" THEN "volatile_stable"
    ELSE "unknown"

BucketOfTypes(token1_type, token2_type) ==
    IF token1_type = "stable" /\ token2_type = "stable" THEN "stable_stable"
    ELSE IF \/ (token1_type = "stable" /\ token2_type = "volatile")
            \/ (token1_type = "volatile" /\ token2_type = "stable")
    THEN "volatile_stable"
    ELSE "unknown"

\* the bucket the pool's liquidity is added to
BucketOfTokens(tokens) ==
    IF Len(tokens) >= 2
    THEN BucketOfTypes(classify_token(tokens[1]), classify_token(tokens[2]))
    ELSE "unknown"

PoolBucket(pool) == BucketOfTokens(PoolTokens(pool))

\* the tokens of the pool that classify as `kind`
TokensOfKind(tokens, kind) ==
    IF Len(tokens) >= 2
    THEN {tokens[i] : i \in {j \in {1, 2} : classify_token(tokens[j]) = kind}}
    ELSE {}

\* one pass of the loop over the pools
CompositionStep(acc, pool_liquidity, tokens, bucket) ==
    [total_liquidity |-> acc.total_liquidity + pool_liquidity,
     stable_stable_liquidity |->
         acc.stable_stable_liquidity + (IF bucket = "stable_stable" THEN pool_liquidity ELSE 0),
     volatile_stable_liquidity |->
         acc.volatile_stable_liquidity + (IF bucket = "volatile_stable" THEN pool_liquidity ELSE 0),
     unknown_liquidity |->
         acc.unknown_liquidity + (IF bucket = "unknown" THEN pool_liquidity ELSE 0),
     stable_tokens |-> acc.stable_tokens \cup TokensOfKind(tokens, "stable"),
     volatile_tokens |-> acc.volatile_tokens \cup TokensOfKind(tokens, "volatile")]

PoolStep(acc, pool, tokens) ==
    CompositionStep(acc, pool.reserve_in_usd, tokens, BucketOfTokens(tokens))

\* the accumulators of the loop over the pools, after the last pool
RECURSIVE CompositionLoop(_, _)
CompositionLoop(pools, acc) ==
    IF pools = <<>> THEN acc
    ELSE CompositionLoop(Tail(pools), PoolStep(acc, Head(pools), PoolTokens(Head(pools))))

CompositionStart ==
    [total_liquidity |-> 0, stable_stable_liquidity |-> 0, volatile_stable_liquidity |-> 0,
     unknown_liquidity |-> 0, stable_tokens |-> {}, volatile_tokens |-> {}]

\* the PoolComposition made from the accumulators
CompositionOf_no_guard(acc) ==
    [stable_stable_percent |->
         Frac(acc.stable_stable_liquidity * 100, Max2(acc.total_liquidity, 1)),
     volatile_stable_percent |->
         Frac(acc.volatile_stable_liquidity * 100, Max2(acc.total_liquidity, 1)),
     unknown_percent |-> Frac(acc.unknown_liquidity * 100, Max2(acc.total_liquidity, 1)),
     stable_tokens |-> acc.stable_tokens,
     volatile_tokens |-> acc.volatile_tokens]

CompositionOf(acc) ==
    IF acc.total_liquidity = 0
    THEN [stable_stable_percent |-> Frac(0, 1),
          volatile_stable_percent |-> Frac(0, 1),
          unknown_percent |-> Frac(100, 1),
          stable_tokens |-> {},
          volatile_tokens |-> {}]
    ELSE [stable_stable_percent |->
              Frac(acc.stable_stable_liquidity * 100, acc.total_liquidity),
          volatile_stable_percent |->
              Frac(acc.volatile_stable_liquidity * 100, acc.total_liquidity),
          unknown_percent |-> Frac(acc.unknown_liquidity * 100, acc.total_liquidity),
          stable_tokens |-> acc.stable_tokens,
          volatile_tokens |-> acc.volatile_tokens]

analyze_pool_composition(pools) == CompositionOf(CompositionLoop(pools, CompositionStart))

(***************************************************************************)
(* _analyze_dex_diversity                                                  *)
(***************************************************************************)
\* dex_liquidity: one entry per exchange, in the order the exchanges first
\* appear in the pool list (the insertion order of the dict)
DexKnown(dex_liquidity, dex_name) ==
    \E i \in 1..Len(dex_liquidity) : dex_liquidity[i].name = dex_name

DexStarted(dex_liquidity, dex_name) ==
    IF DexKnown(dex_liquidity, dex_name) THEN dex_liquidity
    ELSE Append(dex_liquidity, [name |-> dex_name, liquidity_usd |-> 0])

\* each exchange keeps its largest pool instead of the sum of its pools
DexAdded_largest_pool(started, pool) ==
    [i \in 1..Len(started) |->
        IF started[i].name = pool.dex_name
        THEN [name |-> started[i].name,
              liquidity_usd |-> Max2(started[i].liquidity_usd, pool.reserve_in_usd)]
        ELSE started[i]]

DexAdded(started, pool) ==
    [i \in 1..Len(started) |->
        IF started[i].name = pool.dex_name
        THEN [name |-> started[i].name,
              liquidity_usd |-> started[i].liquidity_usd + pool.reserve_in_usd]
        ELSE started[i]]

RECURSIVE DexLiquidityLoop(_, _)
DexLiquidityLoop(pools, dex_liquidity) ==
    IF pools = <<>> THEN dex_liquidity
    ELSE DexLiquidityLoop(Tail(pools),
                          DexAdded(DexStarted(dex_liquidity, Head(pools).dex_name), Head(pools)))

\* a sort that puts a later exchange before an earlier one of the same liquidity
RECURSIVE InsertDescending_unstable(_, _)
InsertDescending_unstable(x, sorted) ==
    IF sorted = <<>> THEN <<x>>
    ELSE IF Head(sorted).liquidity_usd > x.liquidity_usd
         THEN <<Head(sorted)>> \o InsertDescending_unstable(x, Tail(sorted))
         ELSE <<x>> \o sorted

\* sorted(..., key=liquidity, reverse=True): descending, equal keys keep their order
RECURSIVE InsertDescending(_, _)
InsertDescending(x, sorted) ==
    IF sorted = <<>> THEN <<x>>
    ELSE IF Head(sorted).liquidity_usd >= x.liquidity_usd
         THEN <<Head(sorted)>> \o InsertDescending(x, Tail(sorted))
         ELSE <<x>> \o sorted

RECURSIVE SortDescending(_)
SortDescending(items) ==
    IF items = <<>> THEN <<>>
    ELSE InsertDescending(items[Len(items)], SortDescending(SubSeq(items, 1, Len(items) - 1)))

RECURSIVE MaxLiquidity(_)
MaxLiquidity(items) ==
    IF items = <<>> THEN 0
    ELSE Max2(Head(items).liquidity_usd, MaxLiquidity(Tail(items)))

\* liquidity / total_liquidity * 100, or 0 for no liquidity
Percent(liquidity, total_liquidity) ==
    IF total_liquidity > 0 THEN Frac(liquidity * 100, total_liquidity) ELSE Frac(0, 1)

TopDexs(top, total_liquidity) ==
    [i \in 1..Len(top) |->
        [name |-> top[i].name, liquidity_usd |-> top[i].liquidity_usd,
         percent |-> Percent(top[i].liquidity_usd, total_liquidity)]]

FirstFive(ranked) == SubSeq(ranked, 1, Min2(5, Len(ranked)))

\* the DEXAnalysis made from dex_liquidity
DexAnalysisOf(dex_liquidity, total_liquidity) ==
    [total_dex_count |-> Len(dex_liquidity),
     dexs_over_100k |->
         Cardinality({i \in 1..Len(dex_liquidity) : dex_liquidity[i].liquidity_usd >= 100}),
     largest_dex_percent |-> Percent(MaxLiquidity(dex_liquidity), total_liquidity),
     top_dexs |-> TopDexs(FirstFive(SortDescending(dex_liquidity)), total_liquidity),
     dex_names |-> [i \in 1..Len(dex_liquidity) |-> dex_liquidity[i].name]]

analyze_dex_diversity(pools) ==
    DexAnalysisOf(DexLiquidityLoop(pools, <<>>), SumReserves(pools))

(***************************************************************************)
(* _assess_risk_factors                                                    *)
(***************************************************************************)
assess_risk_factors_tvl_only(tvl_usd, dex_analysis, pool_composition) ==
    LET concentration_risk == FracGE(dex_analysis.largest_dex_percent, 80)
    IN  [high_lp_centralization |-> FracGT(dex_analysis.largest_dex_percent, 90),
         recent_drain_events |-> IF tvl_usd <= 50 THEN <<[liquidity_usd |-> tvl_usd]>> ELSE <<>>,
         flash_loan_vulnerability |-> tvl_usd < 1000,
         no_monitoring_controls |-> tvl_usd <= 100,
         concentration_risk |-> concentration_risk]

\* the drain suspicion only below $40,000
assess_risk_factors_drain_under_40k(tvl_usd, dex_analysis, pool_composition) ==
    LET high_lp_centralization == FracGE(dex_analysis.largest_dex_percent, 90)
        concentration_risk ==
            FracGE(dex_analysis.largest_dex_percent, 80) \/ dex_analysis.dexs_over_100k <= 1
        flash_loan_vulnerability == tvl_usd < 1000 /\ concentration_risk
        no_monitoring_controls == tvl_usd < 100
        recent_drain_events ==
            IF tvl_usd < 40
            THEN <<[type |-> "potential_drain",
                    description |-> "Very low liquidity detected",
                    liquidity_usd |-> tvl_usd]>>
            ELSE <<>>
    IN  [high_lp_centralization |-> high_lp_centralization,
         recent_drain_events |-> recent_drain_events,
         flash_loan_vulnerability |-> flash_loan_vulnerability,
         no_monitoring_controls |-> no_monitoring_controls,
         concentration_risk |-> concentration_risk]

\* LP centralization only above 90%
assess_risk_factors_lp_above_90(tvl_usd, dex_analysis, pool_composition) ==
    LET high_lp_centralization == FracGT(dex_analysis.largest_dex_percent, 90)
        concentration_risk ==
            FracGE(dex_analysis.largest_dex_percent, 80) \/ dex_analysis.dexs_over_100k <= 1
        flash_loan_vulnerability == tvl_usd < 1000 /\ concentration_risk
        no_monitoring_controls == tvl_usd < 100
        recent_drain_events ==
            IF tvl_usd < 50
            THEN <<[type |-> "potential_drain",
                    description |-> "Very low liquidity detected",
                    liquidity_usd |-> tvl_usd]>>
            ELSE <<>>
    IN  [high_lp_centralization |-> high_lp_centralization,
         recent_drain_events |-> recent_drain_events,
         flash_loan_vulnerability |-> flash_loan_vulnerability,
         no_monitoring_controls |-> no_monitoring_controls,
         concentration_risk |-> concentration_risk]

assess_risk_factors(tvl_usd, dex_analysis, pool_composition) ==
    LET high_lp_centralization == FracGE(dex_analysis.largest_dex_percent, 90)
        concentration_risk ==
            FracGE(dex_analysis.largest_dex_percent, 80) \/ dex_analysis.dexs_over_100k <= 1
        flash_loan_vulnerability == tvl_usd < 1000 /\ concentration_risk
        no_monitoring_controls == tvl_usd < 100
        recent_drain_events ==
            IF tvl_usd < 50
            THEN <<[type |-> "potential_drain",
                    description |-> "Very low liquidity detected",
                    liquidity_usd |-> tvl_usd]>>
            ELSE <<>>
    IN  [high_lp_centralization |-> high_lp_centralization,
         recent_drain_events |-> recent_drain_events,
         flash_loan_vulnerability |-> flash_loan_vulnerability,
         no_monitoring_controls |-> no_monitoring_controls,
         concentration_risk |-> concentration_risk]

(***************************************************************************)
(* _calculate_base_score                                                   *)
(***************************************************************************)
calculate_base_score(tvl_usd) ==
    IF tvl_usd >= 100000 THEN 95
    ELSE IF tvl_usd >= 30000 THEN 75
    ELSE IF tvl_usd >= 10000 THEN 55
    ELSE IF tvl_usd >= 1000 THEN 35
    ELSE IF tvl_usd > 0 THEN 15
    ELSE 0

(***************************************************************************)
(* _calculate_adjustments: the dict is a function from the names of the    *)
(* triggered adjustments to their deltas                                   *)
(***************************************************************************)
EmptyDict == [k \in {} |-> 0]

DictPut(dict, key, value) ==
    [k \in DOMAIN dict \cup {key} |-> IF k = key THEN value ELSE dict[k]]

\* sum(dict.values())
RECURSIVE DictSum(_)
DictSumFrom(dict, k) == dict[k] + DictSum([x \in DOMAIN dict \ {k} |-> dict[x]])

DictSum(dict) ==
    IF DOMAIN dict = {} THEN 0 ELSE DictSumFrom(dict, CHOOSE x \in DOMAIN dict : TRUE)

PutIf(condition, dict, key, value) == IF condition THEN DictPut(dict, key, value) ELSE dict

calculate_adjustments_coupled(dex_analysis, pool_composition, risk_factors) ==
    PutIf(risk_factors.no_monitoring_controls /\ ~risk_factors.flash_loan_vulnerability,
          PutIf(risk_factors.flash_loan_vulnerability,
                PutIf(risk_factors.recent_drain_events # <<>>,
                      PutIf(risk_factors.high_lp_centralization,
                            PutIf(FracGE(pool_composition.volatile_stable_percent, 50),
                                  PutIf(FracGE(dex_analysis.largest_dex_percent, 90),
                                        PutIf(dex_analysis.dexs_over_100k > 3,
                                              EmptyDict, "dex_diversity_bonus", 10),
                                        "liquidity_centralization", -20),
                                  "volatile_pairing_risk", -10),
                            "lp_centralization", -20),
                      "drain_event_history", -30),
                "flash_loan_risk", -20),
          "no_monitoring", -10)

\* the volatile pairing penalty already at 50% of the liquidity
calculate_adjustments_volatile_at_half(dex_analysis, pool_composition, risk_factors) ==
    PutIf(risk_factors.no_monitoring_controls,
          PutIf(risk_factors.flash_loan_vulnerability,
                PutIf(risk_factors.recent_drain_events # <<>>,
                      PutIf(risk_factors.high_lp_centralization,
                            PutIf(FracGE(pool_composition.volatile_stable_percent, 50),
                                  PutIf(FracGE(dex_analysis.largest_dex_percent, 90),
                                        PutIf(dex_analysis.dexs_over_100k >= 3,
                                              EmptyDict, "dex_diversity_bonus", 10),
                                        "liquidity_centralization", -20),
                                  "volatile_pairing_risk", -10),
                            "lp_centralization", -20),
                      "drain_event_history", -30),
                "flash_loan_risk", -20),
          "no_monitoring", -10)

\* the tests are made in the order of the source, the first innermost
calculate_adjustments(dex_analysis, pool_composition, risk_factors) ==
    PutIf(risk_factors.no_monitoring_controls,
          PutIf(risk_factors.flash_loan_vulnerability,
                PutIf(risk_factors.recent_drain_events # <<>>,
                      PutIf(risk_factors.high_lp_centralization,
                            PutIf(FracGT(pool_composition.volatile_stable_percent, 50),
                                  PutIf(FracGE(dex_analysis.largest_dex_percent, 90),
                                        PutIf(dex_analysis.dexs_over_100k >= 3,
                                              EmptyDict, "dex_diversity_bonus", 10),
                                        "liquidity_centralization", -20),
                                  "volatile_pairing_risk", -10),
                            "lp_centralization", -20),
                      "drain_event_history", -30),
                "flash_loan_risk", -20),
          "no_monitoring", -10)

(***************************************************************************)
(* the final score of analyze_chain_liquidity, bounds-checked              *)
(***************************************************************************)
FinalScore_unclamped(base_score, adjustments) == base_score + DictSum(adjustments)

FinalScore(base_score, adjustments) ==
    Max2(0, Min2(100, base_score + DictSum(adjustments)))

(***************************************************************************)
(* _determine_risk_level_and_color; the score is a fraction of tenths      *)
(***************************************************************************)
determine_risk_level_and_color(final_score) ==
    IF FracGE(final_score, 70) THEN <<"excellent", "green">>
    ELSE IF FracGE(final_score, 50) THEN <<"strong", "green">>
    ELSE IF FracGE(final_score, 40) THEN <<"moderate", "orange">>
    ELSE IF FracGE(final_score, 20) THEN <<"high", "orange">>
    ELSE <<"critical", "red">>

(***************************************************************************)
(* analyze_chain_liquidity, from the pool list on: no score for an empty   *)
(* list, for a reserve float() rejects (the exception is caught) and for a *)
(* TVL of zero.  Timestamps are left out of the result records.            *)
(***************************************************************************)
NetworkOrder ==
    <<"eth", "bsc", "polygon", "arbitrum", "avalanche", "optimism", "fantom", "base">>

\* str.title() on the network ids
Title(network) ==
    CASE network = "eth" -> "Eth"
      [] network = "bsc" -> "Bsc"
      [] network = "polygon" -> "Polygon"
      [] network = "arbitrum" -> "Arbitrum"
      [] network = "avalanche" -> "Avalanche"
      [] network = "optimism" -> "Optimism"
      [] network = "fantom" -> "Fantom"
      [] network = "base" -> "Base"

IsScore(r) == r.kind = "ChainLiquidityScore"

\* min(1.0, (len(pools) / 10) * (tvl_usd / 1_000_000))
DataConfidence(pool_count, tvl_usd) ==
    IF pool_count * tvl_usd >= 10000 THEN Frac(1, 1) ELSE Frac(pool_count * tvl_usd, 10000)

\* the warning already at a TVL of exactly $100,000
ChainLiquidityScore_warning_at_100k(network, pool_count, tvl_usd, pool_composition, dex_analysis, risk_factors, base_score, adjustments, final_score, level) ==
    [kind |-> "ChainLiquidityScore",
     chain_id |-> network,
     chain_name |-> Title(network),
     tvl_usd |-> tvl_usd,
     base_score |-> base_score,
     adjustments |-> adjustments,
     final_score |-> final_score,
     risk_level |-> level[1],
     risk_color |-> level[2],
     critical_warning |-> tvl_usd <= 100,
     dex_analysis |-> dex_analysis,
     pool_composition |-> pool_composition,
     risk_factors |-> risk_factors,
     data_confidence |-> DataConfidence(pool_count, tvl_usd)]

ChainLiquidityScore(network, pool_count, tvl_usd, pool_composition, dex_analysis, risk_factors, base_score, adjustments, final_score, level) ==
    [kind |-> "ChainLiquidityScore",
     chain_id |-> network,
     chain_name |-> Title(network),
     tvl_usd |-> tvl_usd,
     base_score |-> base_score,
     adjustments |-> adjustments,
     final_score |-> final_score,
     risk_level |-> level[1],
     risk_color |-> level[2],
     critical_warning |-> tvl_usd < 100,
     dex_analysis |-> dex_analysis,
     pool_composition |-> pool_composition,
     risk_factors |-> risk_factors,
     data_confidence |-> DataConfidence(pool_count, tvl_usd)]

ScoreWithFinal(network, pool_count, tvl_usd, pool_composition, dex_analysis, risk_factors, base_score, adjustments, final_score) ==
    ChainLiquidityScore(network, pool_count, tvl_usd, pool_composition, dex_analysis,
                        risk_factors, base_score, adjustments, final_score,
                        determine_risk_level_and_color(Frac(final_score, 1)))

ScoreWithAdjustments(network, pool_count, tvl_usd, pool_composition, dex_analysis, risk_factors, base_score, adjustments) ==
    ScoreWithFinal(network, pool_count, tvl_usd, pool_composition, dex_analysis,
                   risk_factors, base_score, adjustments,
                   FinalScore(base_score, adjustments))

ScoreWithRisk(network, pool_count, tvl_usd, pool_composition, dex_analysis, risk_factors) ==
    ScoreWithAdjustments(network, pool_count, tvl_usd, pool_composition, dex_analysis,
                         risk_factors, calculate_base_score(tvl_usd),
                         calculate_adjustments(dex_analysis, pool_composition, risk_factors))

ScoreWithAnalysis(network, pool_count, tvl_usd, pool_composition, dex_analysis) ==
    ScoreWithRisk(network, pool_count, tvl_usd, pool_composition, dex_analysis,
                  assess_risk_factors(tvl_usd, dex_analysis, pool_composition))

\* the analysis without the return for a TVL of 0
ScoreWithTvl_no_guard(network, pools, tvl_usd) ==
    ScoreWithAnalysis(network, Len(pools), tvl_usd,
                      analyze_pool_composition(pools), analyze_dex_diversity(pools))

ScoreWithTvl(network, pools, tvl_usd) ==
    IF tvl_usd = 0 THEN NoneVal
    ELSE ScoreWithAnalysis(network, Len(pools), tvl_usd,
                           analyze_pool_composition(pools), analyze_dex_diversity(pools))

ScoreChain(network, pools) ==
    IF pools = <<>> THEN NoneVal
    ELSE IF HasBadReserve(pools) THEN NoneVal
    ELSE ScoreWithTvl(network, pools, SumReserves(pools))

(***************************************************************************)
(* get_comprehensive_liquidity_analysis, from the gathered results on      *)
(***************************************************************************)
\* chain_scores.sort(key=tvl_usd, reverse=True): descending, equal keys keep their order
RECURSIVE InsertByTvl(_, _)
InsertByTvl(x, sorted) ==
    IF sorted = <<>> THEN <<x>>
    ELSE IF Head(sorted).tvl_usd >= x.tvl_usd
         THEN <<Head(sorted)>> \o InsertByTvl(x, Tail(sorted))
         ELSE <<x>> \o sorted

\* the list left as gather returned it
SortByTvl_unsorted(scores) == scores

RECURSIVE SortByTvl(_)
SortByTvl(scores) ==
    IF scores = <<>> THEN <<>>
    ELSE InsertByTvl(scores[Len(scores)], SortByTvl(SubSeq(scores, 1, Len(scores) - 1)))

\* sum(...) over a list of numbers
RECURSIVE SumSeq(_)
SumSeq(numbers) == IF numbers = <<>> THEN 0 ELSE Head(numbers) + SumSeq(Tail(numbers))

\* the loop over chain_results that keeps the ChainLiquidityScore values
RECURSIVE CollectScores_stop_at_failure(_)
CollectScores_stop_at_failure(chain_results) ==
    IF chain_results = <<>> THEN <<>>
    ELSE IF IsScore(Head(chain_results))
         THEN <<Head(chain_results)>> \o CollectScores_stop_at_failure(Tail(chain_results))
         ELSE <<>>

RECURSIVE CollectScores(_)
CollectScores(chain_results) ==
    IF chain_results = <<>> THEN <<>>
    ELSE IF IsScore(Head(chain_results))
         THEN <<Head(chain_results)>> \o CollectScores(Tail(chain_results))
         ELSE CollectScores(Tail(chain_results))

GlobalRiskScore_unweighted(chain_scores, total_liquidity) ==
    Frac(SumSeq([i \in 1..Len(chain_scores) |-> chain_scores[i].final_score]),
         Len(chain_scores))

\* sum(final_score * (tvl_usd / total_liquidity)), or 0.0 for no liquidity
GlobalRiskScore(chain_scores, total_liquidity) ==
    IF total_liquidity > 0
    THEN Frac(SumSeq([i \in 1..Len(chain_scores) |->
                         chain_scores[i].final_score * chain_scores[i].tvl_usd]),
              total_liquidity)
    ELSE Frac(0, 1)

Finals(chain_scores) == [i \in 1..Len(chain_scores) |-> chain_scores[i].final_score]

Squares(numbers) == [i \in 1..Len(numbers) |-> numbers[i] * numbers[i]]

\* statistics.variance, the sample variance, of count > 1 scores with the given sums
SampleVariance(count, score_sum, square_sum) ==
    Frac(count * square_sum - score_sum * score_sum, count * (count - 1))

EnhancedLiquidityData(total_liquidity, global_risk_score, chain_scores, chain_count, avg_score_per_chain, score_variance) ==
    [kind |-> "EnhancedLiquidityData",
     total_liquidity_usd |-> total_liquidity,
     global_risk_score |-> global_risk_score,
     global_risk_level |-> determine_risk_level_and_color(global_risk_score)[1],
     chain_scores |-> chain_scores,
     chain_count |-> chain_count,
     chains_with_critical_risk |->
         Cardinality({i \in 1..chain_count : chain_scores[i].critical_warning}),
     avg_score_per_chain |-> avg_score_per_chain,
     score_variance |-> score_variance,
     has_critical_warnings |-> \E i \in 1..chain_count : chain_scores[i].critical_warning,
     concentration_risk |->
         \E i \in 1..chain_count : chain_scores[i].risk_factors.concentration_risk,
     diversification_good |-> chain_count >= 3 /\ FracGE(avg_score_per_chain, 50),
     data_sources |-> <<"GeckoTerminal", "DeFiLlama">>,
     cache_status |-> "computed"]

ResultOfSorted(chain_scores, total_liquidity, chain_count, finals) ==
    EnhancedLiquidityData(total_liquidity,
                          GlobalRiskScore(chain_scores, total_liquidity),
                          chain_scores, chain_count,
                          Frac(SumSeq(finals), chain_count),
                          IF chain_count > 1
                          THEN SampleVariance(chain_count, SumSeq(finals), SumSeq(Squares(finals)))
                          ELSE Frac(0, 1))

ResultOfScores_empty_result(collected, total_liquidity) ==
    IF collected = <<>>
    THEN EnhancedLiquidityData(0, Frac(0, 1), <<>>, 0, Frac(0, 1), Frac(0, 1))
    ELSE ResultOfSorted(SortByTvl(collected), total_liquidity, Len(collected), Finals(collected))

ResultOfScores(collected, total_liquidity) ==
    IF collected = <<>> THEN NoneVal
    ELSE ResultOfSorted(SortByTvl(collected), total_liquidity, Len(collected), Finals(collected))

TotalLiquidity(collected) == SumSeq([i \in 1..Len(collected) |-> collected[i].tvl_usd])

BuildResult(chain_results) ==
    ResultOfScores(CollectScores(chain_results), TotalLiquidity(CollectScores(chain_results)))

(***************************************************************************)
(* The upstream pool-data source.  A response is a status with a body; a   *)
(* pool of the body names its exchange by id, and the body's "included"    *)
(* block gives display names for exchange ids.                             *)
(***************************************************************************)
N_usdc_usdt == <<"U","S","D","C","/","U","S","D","T">>
N_usdt_weth == <<"U","S","D","T","/","W","E","T","H">>
N_usdt_wbnb == <<"U","S","D","T"," ","/"," ","W","B","N","B">>
N_wbtc_usdc == <<"W","B","T","C","-","U","S","D","C">>
N_usdt_pepe == <<"U","S","D","T","/","P","E","P","E">>
N_cusd_usdt == <<"c","U","S","D","/","U","S","D","T">>
N_usdce_dai == <<"U","S","D","C",".","e","/","D","A","I">>
N_weth_wbtc == <<"W","E","T","H","/","W","B","T","C">>
N_usdtweth == <<"U","S","D","T","W","E","T","H">>

RawPool(r, n, id) == [reserve_in_usd |-> r, numeric |-> TRUE, name |-> n, dex_id |-> id]

\* the pools the upstream holds for a network
UpstreamPools(network) ==
    CASE network = "eth" ->
             <<RawPool(60000, N_usdc_usdt, "uniswap_v3"), RawPool(30000, N_usdc_usdt, "curve"),
               RawPool(30000, N_usdt_weth, "sushiswap"), RawPool(30000, N_usdce_dai, "balancer")>>
      [] network = "bsc" ->
             <<RawPool(40, N_usdt_wbnb, "pancakeswap")>>
      [] network = "polygon" ->
             <<RawPool(20000, N_usdt_weth, "uniswap_v3"), RawPool(15000, N_wbtc_usdc, "unknown")>>
      [] network = "arbitrum" ->
             <<RawPool(35000, N_usdc_usdt, "curve")>>
      [] OTHER ->
             <<RawPool(500, N_usdt_pepe, "sushiswap"), RawPool(0, N_usdtweth, "curve")>>

\* the same pools with the first reserve null
NullReserve(pools) == [pools EXCEPT ![1].numeric = FALSE, ![1].reserve_in_usd = 0]

DexItem(id, name) == [type |-> "dex", has_id |-> TRUE, id |-> id, has_name |-> TRUE, name |-> name]

GoodIncluded ==
    <<DexItem("uniswap_v3", "Uniswap V3"), DexItem("curve", "Curve"),
      [type |-> "dex", has_id |-> TRUE, id |-> "balancer", has_name |-> FALSE, name |-> ""],
      [type |-> "token", has_id |-> TRUE, id |-> "sushiswap", has_name |-> TRUE, name |-> "Sushi"]>>

\* a dex item with neither id nor name
MalformedIncluded ==
    <<[type |-> "dex", has_id |-> FALSE, id |-> "", has_name |-> FALSE, name |-> ""]>>

Body(has_data, data, has_included, included) ==
    [has_data |-> has_data, data |-> data, has_included |-> has_included, included |-> included]

Response(status, body) == [status |-> status, body |-> body]

NoBody == Body(FALSE, <<>>, FALSE, <<>>)

\* session.get raised (connection failure, timeout)
TransportError == Response(0, NoBody)

\* what the upstream may answer to a pool request for the network
Responses(network) ==
    CASE network = "eth" ->
             { Response(429, NoBody), Response(500, NoBody),
               Response(200, Body(TRUE, UpstreamPools(network), TRUE, GoodIncluded)),
               Response(200, Body(TRUE, UpstreamPools(network), TRUE, MalformedIncluded)) }
      [] network = "bsc" ->
             { Response(429, NoBody), TransportError,
               Response(200, Body(TRUE, UpstreamPools(network), FALSE, <<>>)),
               Response(200, Body(TRUE, <<>>, FALSE, <<>>)) }
      [] network = "polygon" ->
             { Response(429, NoBody), Response(200, NoBody),
               Response(200, Body(TRUE, UpstreamPools(network), TRUE, GoodIncluded)),
               Response(200, Body(TRUE, NullReserve(UpstreamPools(network)), TRUE, GoodIncluded)) }
      [] OTHER ->
             { Response(429, NoBody), Response(503, NoBody),
               Response(200, Body(TRUE, UpstreamPools(network), FALSE, <<>>)) }

\* str.title() on the exchange ids
DexTitle(dex_id) ==
    CASE dex_id = "uniswap_v3" -> "Uniswap_V3"
      [] dex_id = "curve" -> "Curve"
      [] dex_id = "sushiswap" -> "Sushiswap"
      [] dex_id = "balancer" -> "Balancer"
      [] dex_id = "pancakeswap" -> "Pancakeswap"
      [] dex_id = "unknown" -> "Unknown"

(***************************************************************************)
(* _make_request: the parsed body of a 200 answer, None for anything else  *)
(***************************************************************************)
make_request_result(r) ==
    IF r.status = 200 THEN r.body ELSE NoneVal

(***************************************************************************)
(* get_geckoterminal_pools, from the answer of _make_request on.           *)
(* PoolsOutcome gives the list returned and whether it is stored.          *)
(***************************************************************************)
\* building dex_mapping raises on a dex item without id and name: dex_id.title() of None
IncludedRaises(body) ==
    /\ body.has_included
    /\ \E i \in 1..Len(body.included) :
           body.included[i].type = "dex" /\ ~body.included[i].has_id

DexItems(body) ==
    IF body.has_included
    THEN {i \in 1..Len(body.included) : body.included[i].type = "dex"}
    ELSE {}

\* the item that sets the name of the id: the last one in the block
LastItem(body, items, id) ==
    body.included[CHOOSE i \in items :
                      /\ body.included[i].id = id
                      /\ \A j \in items : body.included[j].id = id => j <= i]

ItemName(item) == IF item.has_name THEN item.name ELSE DexTitle(item.id)

MappingOf(body, items) ==
    [id \in {body.included[i].id : i \in items} |-> ItemName(LastItem(body, items, id))]

dex_mapping(body) == MappingOf(body, DexItems(body))

NamedPool(raw, mapping) ==
    [reserve_in_usd |-> raw.reserve_in_usd,
     numeric |-> raw.numeric,
     name |-> raw.name,
     dex_name |-> IF raw.dex_id \in DOMAIN mapping THEN mapping[raw.dex_id]
                  ELSE DexTitle(raw.dex_id)]

NamedPools(data, mapping) == [i \in 1..Len(data) |-> NamedPool(data[i], mapping)]

WithDexNames(body) == NamedPools(body.data, dex_mapping(body))

\* raised: an exception leaves get_geckoterminal_pools
PoolsOutcome_uncaught(data) ==
    IF data = NoneVal \/ ~data.has_data THEN [pools |-> <<>>, store |-> FALSE, raised |-> FALSE]
    ELSE IF IncludedRaises(data) THEN [pools |-> <<>>, store |-> FALSE, raised |-> TRUE]
    ELSE [pools |-> WithDexNames(data), store |-> TRUE, raised |-> FALSE]

PoolsOutcome(data) ==
    IF data = NoneVal \/ ~data.has_data THEN [pools |-> <<>>, store |-> FALSE, raised |-> FALSE]
    ELSE IF IncludedRaises(data) THEN [pools |-> <<>>, store |-> FALSE, raised |-> FALSE]
    ELSE [pools |-> WithDexNames(data), store |-> TRUE, raised |-> FALSE]

(***************************************************************************)
(* State of the service                                                    *)
(***************************************************************************)
Networks == {NetworkOrder[i] : i \in 1..MaxNetworks}

NetworkIndex(network) == CHOOSE i \in 1..Len(NetworkOrder) : NetworkOrder[i] = network

\* default_addresses["tether"]
AddressOf(network) ==
    CASE network = "eth" -> "0xdac17f958d2ee523a2206206994597c13d831ec7"
      [] network = "bsc" -> "0x55d398326f99059ff775485246999027b3197955"
      [] network = "polygon" -> "0xc2132d05d31c914a87c6611c10748aeb04b58e8f"
      [] network = "arbitrum" -> "0xfd086bc7cd5c481dcc9c85ebe478a1c0b69fcbb9"
      [] network = "avalanche" -> "0x9702230a8ea53601f5cd2dc00fdbc13d4df4a8c7"
      [] network = "optimism" -> "0x94b008aa00579c1307b0ef2c499ad98a8ce58e58"
      [] network = "fantom" -> "0x049d68029688eabf473097a2fc38ef61633a3c7a"
      [] network = "base" -> "0xfde4c96c8593536e31f229ea8f37b2ada2699bb2"

\* cache_key = f"gt_pools_{network}_{token_address}"
CacheKey(network) == <<"gt_pools", network, AddressOf(network)>>

\* self.cache_duration = timedelta(hours=1)
cache_duration == 1 * TicksPerHour

Slots == 1..MaxOverlap

\* the address maps a call may be given: the networks in the order of the dict
AddressMaps(nets) ==
    {m \in UNION {[1..k -> nets] : k \in 1..Cardinality(nets)} :
        \A i, j \in 1..Len(m) : i < j => NetworkIndex(m[i]) < NetworkIndex(m[j])}

InMap(m, network) == \E i \in 1..Len(m) : m[i] = network

NoFetch == [outcome |-> "none", t |-> 0]

\* no discover_token_addresses call is open
DiscoveryIdle == [pc |-> "idle", calls |-> 0]

\* no rate-limit counter is stored and no request was made
LimiterIdle ==
    [local_cache |-> [key \in {} |-> NoneVal], window |-> [key \in {} |-> NoneVal],
     out |-> [op |-> "none"]]

IdleInit ==
    /\ cache = [k \in {} |-> NoneVal]
    /\ now = 0
    /\ callNo = 0
    /\ aggPc = [c \in Slots |-> "idle"]
    /\ addresses = [c \in Slots |-> <<>>]
    /\ sem = [c \in Slots |-> 0]
    /\ taskPc = [c \in Slots |-> [n \in Networks |-> "none"]]
    /\ taskRes = [c \in Slots |-> [n \in Networks |-> NoneVal]]
    /\ taskLog = [c \in Slots |-> [n \in Networks |-> <<>>]]
    /\ lastFetch = [n \in Networks |-> NoFetch]
    /\ discovery = DiscoveryIdle
    /\ limiter = LimiterIdle
    /\ result = [c \in Slots |-> NoneVal]

Init ==
    /\ IdleInit
    /\ arg = NoneVal
    /\ ret = NoneVal

serviceVars == <<cache, now, callNo, aggPc, addresses, sem, taskPc, taskRes, taskLog,
                 lastFetch, result>>

(***************************************************************************)
(* get_comprehensive_liquidity_analysis                                    *)
(***************************************************************************)
\* asyncio.Semaphore(2)
SemaphorePermits_three == 2 + 1

SemaphorePermits == 2

\* the call is made with an address map: the semaphore is created and one
\* analyze_chain_bounded task per network is handed to asyncio.gather
StartCall(c, m) ==
    /\ aggPc[c] = "idle"
    /\ \A d \in Slots : d < c => aggPc[d] # "idle"
    /\ callNo' = callNo + 1
    /\ aggPc' = [aggPc EXCEPT ![c] = "gather"]
    /\ addresses' = [addresses EXCEPT ![c] = m]
    /\ sem' = [sem EXCEPT ![c] = SemaphorePermits]
    /\ taskPc' = [taskPc EXCEPT ![c] =
                     [n \in Networks |-> IF InMap(m, n) THEN "waiting" ELSE "none"]]
    /\ taskRes' = [taskRes EXCEPT ![c] = [n \in Networks |-> NoneVal]]
    /\ taskLog' = [taskLog EXCEPT ![c] = [n \in Networks |-> <<>>]]
    /\ result' = [result EXCEPT ![c] = NoneVal]
    /\ UNCHANGED <<cache, now, lastFetch, arg, ret, discovery, limiter>>

\* an entry is still returned when exactly one hour old
CacheFresh_inclusive(network) ==
    /\ CacheKey(network) \in DOMAIN cache
    /\ now - cache[CacheKey(network)].ts <= cache_duration

\* the cache test of get_geckoterminal_pools
CacheFresh(network) ==
    /\ CacheKey(network) \in DOMAIN cache
    /\ now - cache[CacheKey(network)].ts < cache_duration

\* a task gets the semaphore and finds a fresh cache entry: nothing suspends,
\* the analysis runs to its end and the semaphore is given back
AcquireHit(c, n) ==
    /\ aggPc[c] = "gather"
    /\ taskPc[c][n] = "waiting"
    /\ sem[c] > 0
    /\ CacheFresh(n)
    /\ taskPc' = [taskPc EXCEPT ![c][n] = "done"]
    /\ taskRes' = [taskRes EXCEPT ![c][n] = ScoreChain(n, cache[CacheKey(n)].data)]
    /\ UNCHANGED <<cache, now, callNo, aggPc, addresses, sem, taskLog, lastFetch,
                   result, arg, ret, discovery, limiter>>

\* a task gets the semaphore, finds no fresh entry and sends the request
AcquireMiss(c, n) ==
    /\ aggPc[c] = "gather"
    /\ taskPc[c][n] = "waiting"
    /\ sem[c] > 0
    /\ ~CacheFresh(n)
    /\ sem' = [sem EXCEPT ![c] = @ - 1]
    /\ taskPc' = [taskPc EXCEPT ![c][n] = "request"]
    /\ lastFetch' = [lastFetch EXCEPT ![n] = [outcome |-> "pending", t |-> now]]
    /\ UNCHANGED <<cache, now, callNo, aggPc, addresses, taskRes, taskLog, result, arg, ret, discovery, limiter>>

\* what the cache holds after a fetch that got `outcome`
CacheAfter_no_store(network, outcome) == cache

CacheAfter(network, outcome) ==
    IF outcome.store
    THEN [k \in DOMAIN cache \cup {CacheKey(network)} |->
             IF k = CacheKey(network) THEN [data |-> outcome.pools, ts |-> now] ELSE cache[k]]
    ELSE cache

\* the task's request is answered with 429: the warning is logged and the
\* task sleeps
Answer429(c, n) ==
    /\ taskPc[c][n] = "request"
    /\ taskPc' = [taskPc EXCEPT ![c][n] = "backoff"]
    /\ taskLog' = [taskLog EXCEPT ![c][n] = Append(@, 429)]
    /\ UNCHANGED <<cache, now, callNo, aggPc, addresses, sem, taskRes, lastFetch,
                   result, arg, ret, discovery, limiter>>

\* the sleep after a 429 is over: _make_request returns None, the fetch
\* returns the empty list, the analysis returns None
AfterBackoff(c, n) ==
    /\ taskPc[c][n] = "backoff"
    /\ taskPc' = [taskPc EXCEPT ![c][n] = "done"]
    /\ taskRes' = [taskRes EXCEPT ![c][n] = NoneVal]
    /\ sem' = [sem EXCEPT ![c] = @ + 1]
    /\ lastFetch' = [lastFetch EXCEPT ![n].outcome = "failed"]
    /\ UNCHANGED <<cache, now, callNo, aggPc, addresses, taskLog, result, arg, ret, discovery, limiter>>

\* the fetch ends with `outcome`: the list is stored if there is one, the
\* analysis runs on the list returned and the semaphore is given back
FetchEnds(c, n, outcome) ==
    /\ cache' = CacheAfter(n, outcome)
    /\ taskRes' = [taskRes EXCEPT ![c][n] = ScoreChain(n, outcome.pools)]
    /\ lastFetch' = [lastFetch EXCEPT ![n].outcome =
                         IF outcome.store THEN "stored" ELSE "failed"]
    /\ taskPc' = [taskPc EXCEPT ![c][n] = "done"]
    /\ sem' = [sem EXCEPT ![c] = @ + 1]

\* the task's request is answered with anything but 429
Answer(c, n, r) ==
    /\ taskPc[c][n] = "request"
    /\ r.status # 429
    /\ FetchEnds(c, n, PoolsOutcome(make_request_result(r)))
    /\ taskLog' = [taskLog EXCEPT ![c][n] = Append(@, r.status)]
    /\ UNCHANGED <<now, callNo, aggPc, addresses, result, arg, ret, discovery, limiter>>

\* chain_results, in the order of the address map
ChainResults(c) == [i \in 1..Len(addresses[c]) |-> taskRes[c][addresses[c][i]]]

\* asyncio.gather returns when every task has ended; the result is built
Gathered(c) ==
    /\ aggPc[c] = "gather"
    /\ \A n \in Networks : taskPc[c][n] \in {"none", "done"}
    /\ aggPc' = [aggPc EXCEPT ![c] = "done"]
    /\ result' = [result EXCEPT ![c] = BuildResult(ChainResults(c))]
    /\ UNCHANGED <<cache, now, callNo, addresses, sem, taskPc, taskRes, taskLog,
                   lastFetch, arg, ret, discovery, limiter>>

\* the caller's timeout (asyncio.wait_for) cancels the call while it awaits
\* gather: CancelledError is raised at the await and gather cancels the tasks
\* that have not ended.  Where CancelledError is an Exception (Python < 3.8)
\* the handler of the call returns None; otherwise the error leaves the call.
CancelledError == [kind |-> "CancelledError"]

Timeout(c) ==
    /\ aggPc[c] = "gather"
    /\ \E n \in Networks : taskPc[c][n] \in {"waiting", "request", "backoff"}
    /\ aggPc' = [aggPc EXCEPT ![c] = "cancelled"]
    /\ taskPc' = [taskPc EXCEPT ![c] =
                     [n \in Networks |-> IF taskPc[c][n] \in {"none", "done"}
                                         THEN taskPc[c][n] ELSE "cancelled"]]
    /\ sem' = [sem EXCEPT ![c] =
                  @ + Cardinality({n \in Networks : taskPc[c][n] \in {"request", "backoff"}})]
    /\ lastFetch' = [n \in Networks |->
                        IF taskPc[c][n] \in {"request", "backoff"}
                        THEN [lastFetch[n] EXCEPT !.outcome = "failed"]
                        ELSE lastFetch[n]]
    /\ result' \in {[result EXCEPT ![c] = CancelledError], [result EXCEPT ![c] = NoneVal]}
    /\ UNCHANGED <<cache, now, callNo, addresses, taskRes, taskLog, arg, ret, discovery, limiter>>

\* the caller has the return value; the slot is free for the next call
Return(c) ==
    /\ aggPc[c] \in {"done", "cancelled"}
    /\ aggPc' = [aggPc EXCEPT ![c] = "idle"]
    /\ addresses' = [addresses EXCEPT ![c] = <<>>]
    /\ sem' = [sem EXCEPT ![c] = 0]
    /\ taskPc' = [taskPc EXCEPT ![c] = [n \in Networks |-> "none"]]
    /\ taskRes' = [taskRes EXCEPT ![c] = [n \in Networks |-> NoneVal]]
    /\ taskLog' = [taskLog EXCEPT ![c] = [n \in Networks |-> <<>>]]
    /\ result' = [result EXCEPT ![c] = NoneVal]
    /\ UNCHANGED <<cache, now, callNo, lastFetch, arg, ret, discovery, limiter>>

\* time passes
Tick ==
    /\ now < MaxTime
    /\ now' = now + 1
    /\ UNCHANGED <<cache, callNo, aggPc, addresses, sem, taskPc, taskRes, taskLog,
                   lastFetch, result, arg, ret, discovery, limiter>>

NoOpenCall == \A c \in Slots : aggPc[c] = "idle"

\* calls arrive one after the other, all within one tick of the clock
Next ==
    \/ \E m \in AddressMaps(Networks) : callNo < MaxCalls /\ NoOpenCall /\ StartCall(1, m)
    \/ \E n \in Networks : AcquireHit(1, n)
    \/ \E n \in Networks : AcquireMiss(1, n)
    \/ \E n \in Networks : Answer429(1, n)
    \/ \E n \in Networks : AfterBackoff(1, n)
    \/ \E n \in Networks : \E r \in Responses(n) : Answer(1, n, r)
    \/ Gathered(1)
    \/ Timeout(1)
    \/ Return(1)

Spec == Init /\ [][Next]_vars

\* calls over the first networks arrive one after the other while time passes
CacheNetworks == {NetworkOrder[i] : i \in 1..MaxCacheNetworks}

NextCache ==
    \/ \E m \in AddressMaps(CacheNetworks) :
           callNo < MaxCacheCalls /\ NoOpenCall /\ StartCall(1, m)
    \/ \E n \in CacheNetworks : AcquireHit(1, n)
    \/ \E n \in CacheNetworks : AcquireMiss(1, n)
    \/ \E n \in CacheNetworks : Answer429(1, n)
    \/ \E n \in CacheNetworks : AfterBackoff(1, n)
    \/ \E n \in CacheNetworks : \E r \in Responses(n) : Answer(1, n, r)
    \/ Gathered(1)
    \/ Return(1)
    \/ Tick

SpecCache == Init /\ [][NextCache]_vars

(***************************************************************************)
(* discover_token_addresses                                                *)
(***************************************************************************)
MaxDiscoveryNetworks == 2   \* networks that are searched
MaxDiscoveryCalls == 2      \* discover_token_addresses calls in one behaviour

supported_networks ==
    <<"eth", "bsc", "polygon", "arbitrum", "avalanche", "optimism", "fantom",
      "base", "celo", "cronos", "moonbeam", "moonriver", "kava", "metis",
      "aurora", "harmony", "fuse", "gnosis", "milkomeda", "evmos">>

\* the networks of the model: one with static addresses, then one without, ...
DiscoveryPick == <<1, 9, 2, 10>>

DiscoveryNetworks ==
    {supported_networks[DiscoveryPick[i]] : i \in 1..MaxDiscoveryNetworks}

SupportedIndex(network) ==
    CHOOSE i \in 1..Len(supported_networks) : supported_networks[i] = network

DiscoveryCoins == {"tether", "frax"}

\* search_terms of the coin
SearchTerms(coin_id) ==
    IF coin_id = "tether" THEN <<"usdt", "tether">> ELSE <<coin_id>>

\* default_addresses.get(coin_id, {}): the networks with a static address
StaticNetworks(coin_id) ==
    IF coin_id = "tether" THEN {NetworkOrder[i] : i \in 1..Len(NetworkOrder)} ELSE {}

\* the (network, search term) pairs of the coin, and their place in search_tasks
Probes(coin_id) == DiscoveryNetworks \X (1..Len(SearchTerms(coin_id)))

AllProbes == DiscoveryNetworks \X (1..2)

\* the address a search with the term returns when it finds the token
FoundAddress(term) ==
    CASE term = "usdt" -> "0x000000000000000000000000000000000000aaaa"
      [] term = "tether" -> "0x000000000000000000000000000000000000bbbb"
      [] OTHER -> "0x000000000000000000000000000000000000cccc"

DiscoveryKey(coin_id) == <<"token_discovery", coin_id>>

\* the cache test of discover_token_addresses: entries live 6 hours
DiscoveryFresh(coin_id) ==
    /\ DiscoveryKey(coin_id) \in DOMAIN cache
    /\ now - cache[DiscoveryKey(coin_id)].ts < 6 * TicksPerHour

\* asyncio.Semaphore(2)
DiscoveryPermits_three == 2 + 1

DiscoveryPermits == 2

\* the call finds a fresh cache entry and returns it
DiscoveryHit(coin_id) ==
    /\ discovery.pc = "idle"
    /\ discovery.calls < MaxDiscoveryCalls
    /\ DiscoveryFresh(coin_id)
    /\ discovery' = [pc |-> "done", calls |-> discovery.calls + 1, coin |-> coin_id,
                     sem |-> 0,
                     probePc |-> [p \in AllProbes |-> "none"],
                     probeRes |-> [p \in AllProbes |-> NoneVal],
                     out |-> cache[DiscoveryKey(coin_id)].data]
    /\ UNCHANGED <<serviceVars, arg, ret, limiter>>

\* the call makes one coroutine per (network, term), the semaphore, and hands
\* the bounded_search tasks to asyncio.gather; no coroutine runs yet
StartDiscovery(coin_id) ==
    /\ discovery.pc = "idle"
    /\ discovery.calls < MaxDiscoveryCalls
    /\ ~DiscoveryFresh(coin_id)
    /\ discovery' = [pc |-> "gather", calls |-> discovery.calls + 1, coin |-> coin_id,
                     sem |-> DiscoveryPermits,
                     probePc |-> [p \in AllProbes |->
                                     IF p \in Probes(coin_id) THEN "waiting" ELSE "none"],
                     probeRes |-> [p \in AllProbes |-> NoneVal],
                     out |-> NoneVal]
    /\ UNCHANGED <<serviceVars, arg, ret, limiter>>

\* bounded_search gets the semaphore and awaits its coroutine: the probe
\* starts and sends its first request
ProbeStarts(p) ==
    /\ discovery.pc = "gather"
    /\ discovery.probePc[p] = "waiting"
    /\ discovery.sem > 0
    /\ discovery' = [discovery EXCEPT !.sem = @ - 1, !.probePc[p] = "running"]
    /\ UNCHANGED <<serviceVars, arg, ret, limiter>>

\* the tuple (network, address) a probe returns
ProbeResult(network, term) ==
    [kind |-> "tuple", network |-> network, address |-> FoundAddress(term)]

\* the probe ends with (network, address) or, for no match or an error,
\* with None; the semaphore is given back
ProbeEnds(p, found) ==
    /\ discovery.pc = "gather"
    /\ discovery.probePc[p] = "running"
    /\ discovery' = [discovery EXCEPT
                         !.sem = @ + 1,
                         !.probePc[p] = "done",
                         !.probeRes[p] = IF found
                                         THEN ProbeResult(p[1], SearchTerms(discovery.coin)[p[2]])
                                         ELSE NoneVal]
    /\ UNCHANGED <<serviceVars, arg, ret, limiter>>

\* the first tuple of the network in the order of search_tasks, None for none
FirstFound(probeRes, network, terms) ==
    IF \E j \in 1..terms : probeRes[<<network, j>>] # NoneVal
    THEN probeRes[<<network, CHOOSE j \in 1..terms :
                                 /\ probeRes[<<network, j>>] # NoneVal
                                 /\ \A i \in 1..(j - 1) : probeRes[<<network, i>>] = NoneVal>>]
    ELSE NoneVal

\* static addresses used even where an address was discovered
MergeAddresses_static_first(coin_id, probeRes) ==
    [n \in {m \in DiscoveryNetworks :
                FirstFound(probeRes, m, Len(SearchTerms(coin_id))) # NoneVal}
           \cup StaticNetworks(coin_id) |->
        IF n \in StaticNetworks(coin_id) THEN AddressOf(n)
        ELSE FirstFound(probeRes, n, Len(SearchTerms(coin_id))).address]

\* discovered_addresses after the results and the static table are merged
MergeAddresses(coin_id, probeRes) ==
    [n \in {m \in DiscoveryNetworks :
                FirstFound(probeRes, m, Len(SearchTerms(coin_id))) # NoneVal}
           \cup StaticNetworks(coin_id) |->
        IF n \in DiscoveryNetworks /\ FirstFound(probeRes, n, Len(SearchTerms(coin_id))) # NoneVal
        THEN FirstFound(probeRes, n, Len(SearchTerms(coin_id))).address
        ELSE AddressOf(n)]

DiscoveryStored(coin_id, data) ==
    [k \in DOMAIN cache \cup {DiscoveryKey(coin_id)} |->
        IF k = DiscoveryKey(coin_id) THEN [data |-> data, ts |-> now] ELSE cache[k]]

\* gather returns when every probe has ended: the map is merged, stored and returned
DiscoveryGathered ==
    /\ discovery.pc = "gather"
    /\ \A p \in AllProbes : discovery.probePc[p] \in {"none", "done"}
    /\ discovery' = [discovery EXCEPT
                         !.pc = "done",
                         !.out = MergeAddresses(discovery.coin, discovery.probeRes)]
    /\ cache' = DiscoveryStored(discovery.coin,
                                MergeAddresses(discovery.coin, discovery.probeRes))
    /\ UNCHANGED <<now, callNo, aggPc, addresses, sem, taskPc, taskRes, taskLog,
                   lastFetch, result, arg, ret, limiter>>

\* the caller has the map
DiscoveryReturn ==
    /\ discovery.pc = "done"
    /\ discovery' = [pc |-> "idle", calls |-> discovery.calls]
    /\ UNCHANGED <<serviceVars, arg, ret, limiter>>

NextDiscovery ==
    \/ \E coin_id \in DiscoveryCoins : DiscoveryHit(coin_id)
    \/ \E coin_id \in DiscoveryCoins : StartDiscovery(coin_id)
    \/ \E p \in AllProbes : ProbeStarts(p)
    \/ \E p \in AllProbes : \E found \in BOOLEAN : ProbeEnds(p, found)
    \/ DiscoveryGathered
    \/ DiscoveryReturn

SpecDiscovery == Init /\ [][NextDiscovery]_vars

(***************************************************************************)
(* The routes /liquidity/analysis/{coin_id} and                            *)
(* /liquidity/comprehensive-analysis/{coin_id} of api/v1/liquidity.py      *)
(***************************************************************************)
\* the network ids and the addresses of default_addresses["tether"] as text
NetworkText(network) ==
    CASE network = "eth" ->
             <<"e","t","h">>
      [] network = "bsc" ->
             <<"b","s","c">>
      [] network = "polygon" ->
             <<"p","o","l","y","g","o","n">>
      [] network = "arbitrum" ->
             <<"a","r","b","i","t","r","u","m">>
      [] network = "avalanche" ->
             <<"a","v","a","l","a","n","c","h","e">>
      [] network = "optimism" ->
             <<"o","p","t","i","m","i","s","m">>
      [] network = "fantom" ->
             <<"f","a","n","t","o","m">>
      [] network = "base" ->
             <<"b","a","s","e">>

AddressText(network) ==
    CASE network = "eth" ->
             <<"0","x","d","a","c","1","7","f","9","5","8","d","2","e","e","5","2","3","a","2","2","0","6","2","0","6","9","9","4","5","9","7","c","1","3","d","8","3","1","e","c","7">>
      [] network = "bsc" ->
             <<"0","x","5","5","d","3","9","8","3","2","6","f","9","9","0","5","9","f","f","7","7","5","4","8","5","2","4","6","9","9","9","0","2","7","b","3","1","9","7","9","5","5">>
      [] network = "polygon" ->
             <<"0","x","c","2","1","3","2","d","0","5","d","3","1","c","9","1","4","a","8","7","c","6","6","1","1","c","1","0","7","4","8","a","e","b","0","4","b","5","8","e","8","f">>
      [] network = "arbitrum" ->
             <<"0","x","f","d","0","8","6","b","c","7","c","d","5","c","4","8","1","d","c","c","9","c","8","5","e","b","e","4","7","8","a","1","c","0","b","6","9","f","c","b","b","9">>
      [] network = "avalanche" ->
             <<"0","x","9","7","0","2","2","3","0","a","8","e","a","5","3","6","0","1","f","5","c","d","2","d","c","0","0","f","d","b","c","1","3","d","4","d","f","4","a","8","c","7">>
      [] network = "optimism" ->
             <<"0","x","9","4","b","0","0","8","a","a","0","0","5","7","9","c","1","3","0","7","b","0","e","f","2","c","4","9","9","a","d","9","8","a","8","c","e","5","8","e","5","8">>
      [] network = "fantom" ->
             <<"0","x","0","4","9","d","6","8","0","2","9","6","8","8","e","a","b","f","4","7","3","0","9","7","a","2","f","c","3","8","e","f","6","1","6","3","3","a","3","c","7","a">>
      [] network = "base" ->
             <<"0","x","f","d","e","4","c","9","6","c","8","5","9","3","5","3","6","e","3","1","f","2","2","9","e","a","8","f","3","7","b","2","a","d","a","2","6","9","9","b","b","2">>

CoinText(coin_id) ==
    CASE coin_id = "tether" -> <<"t","e","t","h","e","r">>
      [] coin_id = "frax" -> <<"f","r","a","x">>

\* the cache keys as the strings they are: f"gt_pools_{network}_{token_address}"
\* and f"token_discovery_{coin_id}"
KeyText(key) ==
    IF key[1] = "gt_pools"
    THEN <<"g","t","_","p","o","o","l","s","_">> \o NetworkText(key[2]) \o <<"_">> \o AddressText(key[2])
    ELSE <<"t","o","k","e","n","_","d","i","s","c","o","v","e","r","y","_">> \o CoinText(key[2])

\* sub in s, for strings
IsSubstring(sub, s) ==
    \E i \in 0..(Len(s) - Len(sub)) : SubSeq(s, i + 1, i + Len(sub)) = sub

\* keys_to_remove = [key for key in _cache.keys() if coin_id in key]
keys_to_remove(coin_id) ==
    {key \in DOMAIN cache : IsSubstring(CoinText(coin_id), KeyText(key))}

\* the cache after the keys are deleted, or as it was without refresh_cache
CacheCleared(coin_id, refresh_cache) ==
    IF refresh_cache
    THEN [key \in DOMAIN cache \ keys_to_remove(coin_id) |-> cache[key]]
    ELSE cache

\* default_addresses["tether"], the address map of a call without addresses
DefaultMap == [i \in 1..MaxNetworks |-> NetworkOrder[i]]

\* a request to one of the routes: the keys are removed if refresh_cache is
\* set, and get_comprehensive_liquidity_analysis(coin_id) runs up to its gather
RouteRequest(c, coin_id, refresh_cache) ==
    /\ aggPc[c] = "idle"
    /\ callNo' = callNo + 1
    /\ cache' = CacheCleared(coin_id, refresh_cache)
    /\ arg' = [kind |-> "request", coin_id |-> coin_id, refresh_cache |-> refresh_cache]
    /\ aggPc' = [aggPc EXCEPT ![c] = "gather"]
    /\ addresses' = [addresses EXCEPT ![c] = DefaultMap]
    /\ sem' = [sem EXCEPT ![c] = SemaphorePermits]
    /\ taskPc' = [taskPc EXCEPT ![c] =
                     [n \in Networks |-> IF InMap(DefaultMap, n) THEN "waiting" ELSE "none"]]
    /\ taskRes' = [taskRes EXCEPT ![c] = [n \in Networks |-> NoneVal]]
    /\ taskLog' = [taskLog EXCEPT ![c] = [n \in Networks |-> <<>>]]
    /\ result' = [result EXCEPT ![c] = NoneVal]
    /\ UNCHANGED <<now, lastFetch, ret, discovery, limiter>>

\* requests arrive one after the other
NextRefresh ==
    \/ \E refresh_cache \in BOOLEAN :
           callNo < MaxCalls /\ NoOpenCall /\ RouteRequest(1, "tether", refresh_cache)
    \/ \E n \in Networks : AcquireHit(1, n)
    \/ \E n \in Networks : AcquireMiss(1, n)
    \/ \E n \in Networks : Answer429(1, n)
    \/ \E n \in Networks : AfterBackoff(1, n)
    \/ \E n \in Networks : \E r \in Responses(n) : Answer(1, n, r)
    \/ Gathered(1)
    \/ Return(1)

SpecRefresh == Init /\ [][NextRefresh]_vars

(***************************************************************************)
(* Rate limiting: CacheService.increment and check_rate_limit with the     *)
(* local cache (no Redis client), RateLimitMiddleware.dispatch and         *)
(* check_specific_rate_limit                                               *)
(***************************************************************************)
MaxDenied == 2          \* calls of one client above its limit in one window
MaxOtherRequests == 2   \* requests of the second client in one behaviour

\* CacheService.rate_limits; the window of 3600 seconds in ticks
rate_limits ==
    [api_calls_per_ip |-> [limit |-> 100, window |-> 1 * TicksPerHour],
     risk_assessments_per_ip |-> [limit |-> 20, window |-> 1 * TicksPerHour],
     heavy_operations_per_ip |-> [limit |-> 5, window |-> 1 * TicksPerHour]]

LimitTypes == DOMAIN rate_limits

Clients == {"10.0.0.1", "10.0.0.2"}

\* _generate_cache_key('rate_limit', f"{limit_type}:{identifier}")
RateKey(limit_type, identifier) == <<"rate_limit", limit_type, identifier>>

\* the local-cache test of increment: the counter exists and has not expired
CounterLive(local_cache, key) ==
    key \in DOMAIN local_cache /\ local_cache[key].expires_at > now

\* CacheService.increment with amount 1: the counter after the call
Incremented(local_cache, key, ttl) ==
    IF CounterLive(local_cache, key)
    THEN [data |-> local_cache[key].data + 1, expires_at |-> local_cache[key].expires_at]
    ELSE [data |-> 1, expires_at |-> now + ttl]

\* local_cache after increment
increment(local_cache, key, ttl) ==
    [k \in DOMAIN local_cache \cup {key} |->
        IF k = key THEN Incremented(local_cache, key, ttl) ELSE local_cache[k]]

\* allowed = current_count < limit, as the read-only check has it
RateAllowed_below_limit(current_count, limit) == current_count < limit

\* allowed = current_count <= limit_config['limit']
RateAllowed(current_count, limit) == current_count <= limit

\* the dict check_rate_limit returns for the count that increment returned
RateLimitResult(limit_type, current_count) ==
    [allowed |-> RateAllowed(current_count, rate_limits[limit_type].limit),
     remaining |-> Max2(0, rate_limits[limit_type].limit - current_count),
     current |-> current_count,
     limit |-> rate_limits[limit_type].limit,
     window_seconds |-> rate_limits[limit_type].window]

check_rate_limit(local_cache, limit_type, identifier) ==
    RateLimitResult(limit_type,
                    Incremented(local_cache, RateKey(limit_type, identifier),
                                rate_limits[limit_type].window).data)

\* history: the window the request falls in, as [start, calls]; a request at
\* or after the end of the last window opens a new one
WindowAfter(window, key, length) ==
    IF key \in DOMAIN window /\ now < window[key].start + length
    THEN [start |-> window[key].start, calls |-> window[key].calls + 1]
    ELSE [start |-> now, calls |-> 1]

Recorded(window, key, length) ==
    [k \in DOMAIN window \cup {key} |->
        IF k = key THEN WindowAfter(window, key, length) ELSE window[k]]

\* what dispatch answers: 429 without the handler, or the handler's response
DispatchOut(limit_type, identifier, rate_limit_result) ==
    [op |-> "dispatch", limit_type |-> limit_type, identifier |-> identifier,
     rate_limit_result |-> rate_limit_result,
     status_code |-> IF rate_limit_result.allowed THEN 200 ELSE 429,
     handler_invoked |-> rate_limit_result.allowed]

\* RateLimitMiddleware.dispatch for a request of the client to an endpoint
\* of the category
Dispatch(limit_type, identifier) ==
    /\ limiter' =
           [local_cache |-> increment(limiter.local_cache, RateKey(limit_type, identifier),
                                      rate_limits[limit_type].window),
            window |-> Recorded(limiter.window, RateKey(limit_type, identifier),
                                rate_limits[limit_type].window),
            out |-> DispatchOut(limit_type, identifier,
                                check_rate_limit(limiter.local_cache, limit_type, identifier))]
    /\ UNCHANGED <<serviceVars, arg, ret, discovery>>

\* the answer of the read-only check when the key is not in local_cache
SpecificResult(limit_type, current_count) ==
    [current |-> current_count,
     limit |-> rate_limits[limit_type].limit,
     remaining |-> Max2(0, rate_limits[limit_type].limit - current_count),
     allowed |-> current_count < rate_limits[limit_type].limit,
     window_seconds |-> rate_limits[limit_type].window]

\* the answer of its except branch
SpecificError ==
    [current |-> 0, limit |-> 999, remaining |-> 999, allowed |-> TRUE,
     window_seconds |-> 1 * TicksPerHour]

\* check_specific_rate_limit without Redis: for a key in local_cache the
\* expiry test reads cache_service.datetime, which the CacheService instance
\* does not have; the AttributeError is caught by the except branch
check_specific_rate_limit(local_cache, limit_type, identifier) ==
    IF RateKey(limit_type, identifier) \in DOMAIN local_cache
    THEN SpecificError
    ELSE SpecificResult(limit_type, 0)

\* POST /rate-limit/check
CheckSpecific(limit_type, identifier) ==
    /\ limiter' =
           [limiter EXCEPT !.out =
               [op |-> "check", limit_type |-> limit_type, identifier |-> identifier,
                status |-> check_specific_rate_limit(limiter.local_cache, limit_type,
                                                     identifier)]]
    /\ UNCHANGED <<serviceVars, arg, ret, discovery>>

\* the requests one behaviour has: each client keeps to one category, the
\* first stops MaxDenied calls above the limit of a window, the second makes
\* MaxOtherRequests requests
OneCategory(limit_type, identifier) ==
    \A key \in DOMAIN limiter.local_cache :
        key[3] = identifier => key[2] = limit_type

CountOf(local_cache, key) == IF CounterLive(local_cache, key) THEN local_cache[key].data ELSE 0

RECURSIVE CallsOf(_, _)
CallsOf(window, keys) ==
    IF keys = {} THEN 0
    ELSE CallsOf(window, keys \ {CHOOSE k \in keys : TRUE})
             + window[CHOOSE k \in keys : TRUE].calls

MayRequest(limit_type, identifier) ==
    /\ OneCategory(limit_type, identifier)
    /\ IF identifier = "10.0.0.1"
       THEN CountOf(limiter.local_cache, RateKey(limit_type, identifier))
                < rate_limits[limit_type].limit + MaxDenied
       ELSE CallsOf(limiter.window, {k \in DOMAIN limiter.window : k[3] = identifier})
                < MaxOtherRequests

\* the status is asked for the first client, in its category
MayCheck(limit_type, identifier) ==
    identifier = "10.0.0.1" /\ OneCategory(limit_type, identifier)

NextRateLimit ==
    \/ \E limit_type \in LimitTypes, identifier \in Clients :
           MayRequest(limit_type, identifier) /\ Dispatch(limit_type, identifier)
    \/ \E limit_type \in LimitTypes, identifier \in Clients :
           MayCheck(limit_type, identifier) /\ CheckSpecific(limit_type, identifier)
    \/ Tick

SpecRateLimit == Init /\ [][NextRateLimit]_vars

\* calls over two networks arrive one after the other while time passes, also
\* between the requests of one call
MaxTtlCalls == 2       \* calls in one behaviour of SpecTtl

TtlNetworks == {NetworkOrder[1], NetworkOrder[2]}

NextTtl ==
    \/ \E m \in AddressMaps(TtlNetworks) :
           callNo < MaxTtlCalls /\ NoOpenCall /\ StartCall(1, m)
    \/ \E n \in TtlNetworks : AcquireHit(1, n)
    \/ \E n \in TtlNetworks : AcquireMiss(1, n)
    \/ \E n \in TtlNetworks : Answer429(1, n)
    \/ \E n \in TtlNetworks : AfterBackoff(1, n)
    \/ \E n \in TtlNetworks : \E r \in Responses(n) : Answer(1, n, r)
    \/ Gathered(1)
    \/ Return(1)
    \/ Tick

SpecTtl == Init /\ [][NextTtl]_vars

\* calls on the shared enhanced_liquidity_service instance that are open at
\* the same time, as concurrent HTTP requests make them: every call slot runs
\* its own call
NextOverlap ==
    \/ \E c \in Slots : \E m \in AddressMaps(TtlNetworks) : callNo < MaxCalls /\ StartCall(c, m)
    \/ \E c \in Slots : \E n \in TtlNetworks : AcquireHit(c, n)
    \/ \E c \in Slots : \E n \in TtlNetworks : AcquireMiss(c, n)
    \/ \E c \in Slots : \E n \in TtlNetworks : Answer429(c, n)
    \/ \E c \in Slots : \E n \in TtlNetworks : AfterBackoff(c, n)
    \/ \E c \in Slots : \E n \in TtlNetworks : \E r \in Responses(n) : Answer(c, n, r)
    \/ \E c \in Slots : Gathered(c)
    \/ \E c \in Slots : Return(c)

SpecOverlap == Init /\ [][NextOverlap]_vars

(***************************************************************************)
(* The pure functions applied to inputs drawn from bounded sets            *)
(***************************************************************************)
SampleNames ==
    { N_usdc_usdt, N_usdt_weth, N_usdt_wbnb, N_wbtc_usdc, N_usdt_pepe, N_cusd_usdt,
      N_usdce_dai, N_weth_wbtc, N_usdtweth }

\* pools that differ in their pair names, and pools that differ in size and exchange
SamplePools ==
    {Pool(40, n, "Uniswap V3") : n \in SampleNames}
        \cup {Pool(0, n, "Uniswap V3") : n \in {N_usdc_usdt, N_usdtweth}}
        \cup {Pool(50000, N_usdc_usdt, d) : d \in {"Uniswap V3", "Curve", "Sushiswap"}}
        \cup {Pool(60, N_usdc_usdt, "Curve")}

PoolLists == UNION {[1..k -> SamplePools] : k \in 0..MaxPools}

\* the pool lists of the upstream, as the fetch hands them on
FetchedLists ==
    {WithDexNames(Body(TRUE, UpstreamPools(NetworkOrder[i]), TRUE, GoodIncluded)) :
        i \in 1..Len(NetworkOrder)}
        \cup {<<>>, <<BadPool(N_usdc_usdt, "Curve")>>}

\* pool lists over seven exchanges, for the ranking: one pool per exchange
\* in this order, and a last pool on the seventh or again on the first
RankedDexs ==
    <<"Uniswap V3", "Curve", "Sushiswap", "Balancer", "PancakeSwap", "Aerodrome", "Camelot">>

RankingLists ==
    {[i \in 1..7 |-> Pool(r[i], N_usdc_usdt, IF i = 7 /\ again THEN RankedDexs[1] ELSE RankedDexs[i])] :
        r \in [1..7 -> {40, 60}], again \in BOOLEAN}

\* pool lists of $150,000,000 on four exchanges, the largest with 40%, with
\* stable and volatile pairs
ScenarioSizes == <<60000, 30000, 30000, 15000, 15000>>

ScenarioDexs == <<"Uniswap V3", "Curve", "Sushiswap", "Balancer", "Balancer">>

ScenarioLists ==
    {[i \in 1..5 |-> Pool(ScenarioSizes[i], n[i], ScenarioDexs[i])] :
        n \in [1..5 -> {N_usdc_usdt, N_usdt_weth}]}

\* two exchanges, the larger with just under, exactly and just over 90% of the
\* liquidity, in thousands and in millions of dollars
CentralizationLists ==
    {<<Pool(a * k, N_usdc_usdt, "Uniswap V3"), Pool(10 * k, N_usdc_usdt, "Curve")>> :
        a \in {89, 90, 91}, k \in {1, 1000}}

PoolsArgs == {[op |-> "pools", pools |-> pools] : pools \in PoolLists \cup FetchedLists \cup RankingLists \cup ScenarioLists \cup CentralizationLists}

AggregateArgs ==
    {[op |-> "aggregate", lists |-> lists] :
        lists \in UNION {[1..k -> FetchedLists] : k \in 1..MaxNetworks}}

SampleTvl == {0, 1, 49, 50, 99, 100, 999, 1000, 150000}

SamplePercent == {Frac(p, 1) : p \in {0, 40, 50, 51, 79, 80, 89, 90, 100}}

SampleDex ==
    {[total_dex_count |-> 4, dexs_over_100k |-> k, largest_dex_percent |-> p,
      top_dexs |-> <<>>, dex_names |-> <<>>] : k \in 0..4, p \in SamplePercent}

SampleComposition ==
    {[stable_stable_percent |-> Frac(0, 1), volatile_stable_percent |-> p,
      unknown_percent |-> Frac(100 - p.num, 1), stable_tokens |-> {}, volatile_tokens |-> {}] :
        p \in {Frac(q, 1) : q \in {0, 50, 51, 100}}}

SampleRisk ==
    {[high_lp_centralization |-> h, recent_drain_events |-> d, flash_loan_vulnerability |-> f,
      no_monitoring_controls |-> m, concentration_risk |-> FALSE] :
        h \in BOOLEAN, f \in BOOLEAN, m \in BOOLEAN,
        d \in {<<>>, <<[type |-> "potential_drain",
                        description |-> "Very low liquidity detected",
                        liquidity_usd |-> 40]>>}}

AssessArgs ==
    {[op |-> "assess", tvl_usd |-> t, dex_analysis |-> d, pool_composition |-> c] :
        t \in SampleTvl, d \in SampleDex,
        c \in {x \in SampleComposition : FracEq(x.volatile_stable_percent, 0)}}

AdjustArgs ==
    {[op |-> "adjust", base_score |-> b, dex_analysis |-> d, pool_composition |-> c,
      risk_factors |-> r] :
        b \in {15, 55, 95},
        d \in {x \in SampleDex : x.dexs_over_100k \in {2, 3}
                                  /\ x.largest_dex_percent \in {Frac(89, 1), Frac(90, 1)}},
        c \in {x \in SampleComposition : x.volatile_stable_percent \in {Frac(50, 1), Frac(51, 1)}},
        r \in SampleRisk}

\* a score of the network with the given TVL and final score
SampleScore(network, tvl_usd, final_score) ==
    ChainLiquidityScore(network, 1, tvl_usd, CompositionOf(CompositionStart),
                        DexAnalysisOf(<<[name |-> "Curve", liquidity_usd |-> tvl_usd]>>, tvl_usd),
                        [high_lp_centralization |-> TRUE, recent_drain_events |-> <<>>,
                         flash_loan_vulnerability |-> FALSE, no_monitoring_controls |-> FALSE,
                         concentration_risk |-> TRUE],
                        final_score, EmptyDict, final_score,
                        determine_risk_level_and_color(Frac(final_score, 1)))

SampleScores(network) ==
    {SampleScore(network, t, f) : t \in {1000, 2000}, f \in {30, 60, 90}}

\* one score per network, for the first networks
ScoresArgs ==
    {[op |-> "scores", scores |-> scores] :
        scores \in UNION {{q \in [1..k -> UNION {SampleScores(NetworkOrder[i]) : i \in 1..k}] :
                              \A i \in 1..k : q[i].chain_id = NetworkOrder[i]} :
                          k \in 1..MaxNetworks}}

\* RiskScoringService.risk_thresholds, in the order of the dict; scores and
\* bounds in hundredths
risk_thresholds ==
    <<[level |-> "Very Low", min_score |-> 850, max_score |-> 1000],
      [level |-> "Low", min_score |-> 700, max_score |-> 850],
      [level |-> "Moderate", min_score |-> 550, max_score |-> 700],
      [level |-> "High", min_score |-> 350, max_score |-> 550],
      [level |-> "Very High", min_score |-> 200, max_score |-> 350],
      [level |-> "Critical", min_score |-> 0, max_score |-> 200]>>

\* RiskScoringService._determine_risk_level: the first band with
\* min_score <= score < max_score, Critical when the loop finds none
RECURSIVE LevelFrom(_, _)
LevelFrom(thresholds, score) ==
    IF thresholds = <<>> THEN "Critical"
    ELSE IF Head(thresholds).min_score <= score /\ score < Head(thresholds).max_score
         THEN Head(thresholds).level
         ELSE LevelFrom(Tail(thresholds), score)

determine_risk_level(score) == LevelFrom(risk_thresholds, score)

\* the scores 0.00 to 10.00
LevelArgs == {[op |-> "level", score |-> s] : s \in 0..1000}

\* every answer the upstream may give to a pool request
FetchArgs ==
    {[op |-> "fetch", response |-> r] :
        r \in UNION {Responses(NetworkOrder[i]) : i \in 1..Len(NetworkOrder)}}

\* the symbols of known_stablecoins in lower case, in upper case and capitalised
UpperChar(c) ==
    IF \E i \in 1..26 : LowerChars[i] = c
    THEN UpperChars[CHOOSE i \in 1..26 : LowerChars[i] = c]
    ELSE c

StrUpper(s) == [i \in 1..Len(s) |-> UpperChar(s[i])]

Capitalised(s) == [i \in 1..Len(s) |-> IF i = 1 THEN UpperChar(s[i]) ELSE s[i]]

ClassifyArgs ==
    UNION {{[op |-> "classify", token_symbol |-> t] :
                t \in {s, StrUpper(s), Capitalised(s)}} : s \in known_stablecoins}

InitFunctions ==
    /\ IdleInit
    /\ arg \in PoolsArgs \cup AggregateArgs \cup ScoresArgs \cup AssessArgs \cup AdjustArgs
                  \cup FetchArgs \cup LevelArgs \cup ClassifyArgs
    /\ ret = NoneVal

\* _analyze_pool_composition, _analyze_dex_diversity and the scoring of
\* analyze_chain_liquidity on one pool list
ApplyToPools ==
    /\ arg.op = "pools"
    /\ ret = NoneVal
    /\ ret' = [kind |-> "pools",
               pool_composition |-> IF HasBadReserve(arg.pools) THEN NoneVal
                                    ELSE analyze_pool_composition(arg.pools),
               dex_analysis |-> IF HasBadReserve(arg.pools) THEN NoneVal
                                ELSE analyze_dex_diversity(arg.pools),
               score |-> ScoreChain("eth", arg.pools)]
    /\ UNCHANGED <<arg, serviceVars, discovery, limiter>>

\* the scores of the pool lists of several networks, aggregated
ScoresOf(lists) == [i \in 1..Len(lists) |-> ScoreChain(NetworkOrder[i], lists[i])]

ApplyAggregate ==
    /\ arg.op = "aggregate"
    /\ ret = NoneVal
    /\ ret' = [kind |-> "aggregate",
               chain_results |-> ScoresOf(arg.lists),
               result |-> BuildResult(ScoresOf(arg.lists))]
    /\ UNCHANGED <<arg, serviceVars, discovery, limiter>>

\* the aggregation of get_comprehensive_liquidity_analysis on given scores
ApplyToScores ==
    /\ arg.op = "scores"
    /\ ret = NoneVal
    /\ ret' = [kind |-> "scores", result |-> BuildResult(arg.scores)]
    /\ UNCHANGED <<arg, serviceVars, discovery, limiter>>

\* get_geckoterminal_pools on a cache miss, given the answer to its request
ApplyFetch ==
    /\ arg.op = "fetch"
    /\ ret = NoneVal
    /\ ret' = [kind |-> "fetch", outcome |-> PoolsOutcome(make_request_result(arg.response))]
    /\ UNCHANGED <<arg, serviceVars, discovery, limiter>>

ApplyLevel ==
    /\ arg.op = "level"
    /\ ret = NoneVal
    /\ ret' = [kind |-> "level", level |-> determine_risk_level(arg.score)]
    /\ UNCHANGED <<arg, serviceVars, discovery, limiter>>

\* _classify_token on one symbol
ApplyClassify ==
    /\ arg.op = "classify"
    /\ ret = NoneVal
    /\ ret' = [kind |-> "classify", class |-> classify_token(arg.token_symbol)]
    /\ UNCHANGED <<arg, serviceVars, discovery, limiter>>

ApplyAssess ==
    /\ arg.op = "assess"
    /\ ret = NoneVal
    /\ ret' = [kind |-> "assess",
               risk_factors |->
                   assess_risk_factors(arg.tvl_usd, arg.dex_analysis, arg.pool_composition)]
    /\ UNCHANGED <<arg, serviceVars, discovery, limiter>>

AdjustResult(base_score, adjustments) ==
    [kind |-> "adjust", adjustments |-> adjustments,
     final_score |-> FinalScore(base_score, adjustments)]

ApplyAdjust ==
    /\ arg.op = "adjust"
    /\ ret = NoneVal
    /\ ret' = AdjustResult(arg.base_score,
                           calculate_adjustments(arg.dex_analysis, arg.pool_composition,
                                                 arg.risk_factors))
    /\ UNCHANGED <<arg, serviceVars, discovery, limiter>>

NextFunctions ==
    \/ ApplyToPools
    \/ ApplyAggregate
    \/ ApplyToScores
    \/ ApplyFetch
    \/ ApplyAssess
    \/ ApplyAdjust
    \/ ApplyLevel
    \/ ApplyClassify

SpecFunctions == InitFunctions /\ [][NextFunctions]_vars

(***************************************************************************)
(* Properties                                                              *)
(***************************************************************************)
\* the scores the pure functions returned in this state
ScoresReturned ==
    IF ret.kind = "pools" THEN {ret.score}
    ELSE IF ret.kind = "aggregate"
         THEN {ret.chain_results[i] : i \in 1..Len(ret.chain_results)}
         ELSE {}

\* C1: every ChainLiquidityScore that analyze_chain_liquidity produces has a
\* final_score in [0, 10] (0..100 tenths), and every EnhancedLiquidityData
\* that the aggregation produces has a global_risk_score in [0, 10].
C1_ScoreBounds ==
    /\ \A s \in ScoresReturned : IsScore(s) => s.final_score >= 0 /\ s.final_score <= 100
    /\ (ret.kind = "aggregate" /\ ret.result.kind = "EnhancedLiquidityData") =>
           /\ ret.result.global_risk_score.den > 0
           /\ ret.result.global_risk_score.num >= 0
           /\ ret.result.global_risk_score.num <= 100 * ret.result.global_risk_score.den

\* a result over one score whose sum is above 10 and one whose sum is below 0
C1_Witness ==
    /\ ret.kind = "aggregate"
    /\ ret.result.kind = "EnhancedLiquidityData"
    /\ \E s \in ScoresReturned :
           IsScore(s) /\ s.base_score + DictSum(s.adjustments) > 100 /\ s.final_score = 100
    /\ \E s \in ScoresReturned :
           IsScore(s) /\ s.base_score + DictSum(s.adjustments) < 0 /\ s.final_score = 0

\* the adjustment table: name, delta
C2_Table ==
    { <<"dex_diversity_bonus", 10>>, <<"liquidity_centralization", -20>>,
      <<"volatile_pairing_risk", -10>>, <<"lp_centralization", -20>>,
      <<"drain_event_history", -30>>, <<"flash_loan_risk", -20>>, <<"no_monitoring", -10>> }

C2_Triggered(name, dex_analysis, pool_composition, risk_factors) ==
    CASE name = "dex_diversity_bonus" -> dex_analysis.dexs_over_100k >= 3
      [] name = "liquidity_centralization" ->
             dex_analysis.largest_dex_percent.num >= 90 * dex_analysis.largest_dex_percent.den
      [] name = "volatile_pairing_risk" ->
             pool_composition.volatile_stable_percent.num
                 > 50 * pool_composition.volatile_stable_percent.den
      [] name = "lp_centralization" -> risk_factors.high_lp_centralization
      [] name = "drain_event_history" -> Len(risk_factors.recent_drain_events) >= 1
      [] name = "flash_loan_risk" -> risk_factors.flash_loan_vulnerability
      [] name = "no_monitoring" -> risk_factors.no_monitoring_controls

C2_Entries(dex_analysis, pool_composition, risk_factors) ==
    {e \in C2_Table : C2_Triggered(e[1], dex_analysis, pool_composition, risk_factors)}

RECURSIVE C2_Sum(_)
C2_Sum(entries) ==
    IF entries = {} THEN 0
    ELSE LET e == CHOOSE x \in entries : TRUE IN e[2] + C2_Sum(entries \ {e})

C2_Clamp(x) == IF x < 0 THEN 0 ELSE IF x > 100 THEN 100 ELSE x

C2_Holds(entries, base_score, adjustments, final_score) ==
    /\ DOMAIN adjustments = {e[1] : e \in entries}
    /\ \A e \in entries : adjustments[e[1]] = e[2]
    /\ final_score = C2_Clamp(base_score + C2_Sum(entries))

\* C2: the adjustment map holds exactly the triggered entries of the table
\* with their deltas, each entry triggered by its own condition alone, and
\* final_score = max(0, min(10, base_score + sum of the deltas)).
C2_AdjustmentTable ==
    /\ ret.kind = "adjust" =>
           C2_Holds(C2_Entries(arg.dex_analysis, arg.pool_composition, arg.risk_factors),
                    arg.base_score, ret.adjustments, ret.final_score)
    /\ (ret.kind = "pools" /\ IsScore(ret.score)) =>
           C2_Holds(C2_Entries(ret.score.dex_analysis, ret.score.pool_composition,
                               ret.score.risk_factors),
                    ret.score.base_score, ret.score.adjustments, ret.score.final_score)

\* all seven entries are triggered at once
C2_Witness ==
    /\ ret.kind = "adjust"
    /\ Cardinality(DOMAIN ret.adjustments) = 7
    /\ ret.final_score = 0

C3_TypesOfTokens(tokens) ==
    IF Len(tokens) >= 2 THEN <<classify_token(tokens[1]), classify_token(tokens[2])>> ELSE <<>>

\* the classes of the first two tokens of the pair name, <<>> for a name without delimiter
C3_TypesOf(pool) == C3_TypesOfTokens(PoolTokens(pool))

\* the rule as stated: one stable token and one token that is anything but stable
C3_StatedBucket(types) ==
    IF types = <<>> THEN "unknown"
    ELSE IF types[1] = "stable" /\ types[2] = "stable" THEN "stable_stable"
    ELSE IF (types[1] = "stable") # (types[2] = "stable") THEN "volatile_stable"
    ELSE "unknown"

\* the rule with the other token volatile
C3_VolatileBucket(types) ==
    IF types = <<>> THEN "unknown"
    ELSE IF types[1] = "stable" /\ types[2] = "stable" THEN "stable_stable"
    ELSE IF {types[1], types[2]} = {"stable", "volatile"} THEN "volatile_stable"
    ELSE "unknown"

\* the percentage of the bucket when pool i goes to buckets[i]
C3_Percent(pools, buckets, bucket) ==
    Frac(100 * SumSeq([i \in 1..Len(pools) |->
                          IF buckets[i] = bucket THEN pools[i].reserve_in_usd ELSE 0]),
         SumReserves(pools))

C3_Agrees(pools, buckets, composition) ==
    /\ composition.stable_stable_percent = C3_Percent(pools, buckets, "stable_stable")
    /\ composition.volatile_stable_percent = C3_Percent(pools, buckets, "volatile_stable")
    /\ composition.unknown_percent = C3_Percent(pools, buckets, "unknown")

C3_Applies ==
    /\ ret.kind = "pools"
    /\ ret.pool_composition # NoneVal
    /\ SumReserves(arg.pools) > 0

C4_Holds(tvl_usd, dex_analysis, risk_factors) ==
    /\ risk_factors.high_lp_centralization
           = (dex_analysis.largest_dex_percent.num >= 90 * dex_analysis.largest_dex_percent.den)
    /\ risk_factors.concentration_risk
           = (\/ dex_analysis.largest_dex_percent.num >= 80 * dex_analysis.largest_dex_percent.den
              \/ dex_analysis.dexs_over_100k <= 1)
    /\ risk_factors.flash_loan_vulnerability
           = (tvl_usd < 1000 /\ risk_factors.concentration_risk)
    /\ risk_factors.no_monitoring_controls = (tvl_usd < 100)
    /\ IF tvl_usd < 50
       THEN /\ Len(risk_factors.recent_drain_events) = 1
            /\ risk_factors.recent_drain_events[1].liquidity_usd = tvl_usd
       ELSE risk_factors.recent_drain_events = <<>>

C5_PercentagesSum ==
    (ret.kind = "pools" /\ ret.pool_composition # NoneVal) =>
        /\ ret.pool_composition.stable_stable_percent.den > 0
        /\ ret.pool_composition.volatile_stable_percent.den
               = ret.pool_composition.stable_stable_percent.den
        /\ ret.pool_composition.unknown_percent.den
               = ret.pool_composition.stable_stable_percent.den
        /\ ret.pool_composition.stable_stable_percent.num
               + ret.pool_composition.volatile_stable_percent.num
               + ret.pool_composition.unknown_percent.num
               = 100 * ret.pool_composition.stable_stable_percent.den
        /\ SumReserves(arg.pools) = 0 =>
               /\ ret.pool_composition.stable_stable_percent.num = 0
               /\ ret.pool_composition.volatile_stable_percent.num = 0
               /\ ret.pool_composition.unknown_percent = Frac(100, 1)

\* a list of pools, all without liquidity, one of them stable-stable
C5_Witness ==
    /\ ret.kind = "pools"
    /\ ret.pool_composition # NoneVal
    /\ Len(arg.pools) >= 2
    /\ SumReserves(arg.pools) = 0
    /\ \E i \in 1..Len(arg.pools) : C3_TypesOf(arg.pools[i]) = <<"stable", "stable">>

\* a pool fetch of the network sends its request in this step
C6_Requests(n) == taskPc[1][n] = "waiting" /\ taskPc'[1][n] = "request"

\* a pool fetch of the network is answered from the cache in this step
C6_Hits(n) == taskPc[1][n] = "waiting" /\ taskPc'[1][n] = "done"

\* the last fetch of the network that sent a request began within the TTL
C6_WithinTtl(n) == now - lastFetch[n].t < cache_duration

\* C6 as stated: a pool fetch made within the TTL window of an earlier fetch
\* of the same (network, address) sends no request, whatever the outcome of
\* the earlier fetch: one request in total.
C6_Original ==
    [][\A n \in CacheNetworks :
           C6_Requests(n) =>
               ~(lastFetch[n].outcome \in {"stored", "failed"} /\ C6_WithinTtl(n))]_vars

\* C6: a pool fetch made within the TTL window of an earlier fetch of the
\* same (network, address) that stored its list sends no request (one
\* request in total); a fetch served from the cache always follows a fetch
\* that stored its list, so after a failed fetch the next one sends its own
\* request.
C6_CacheIdempotence ==
    [][\A n \in CacheNetworks :
           /\ C6_Requests(n) => ~(lastFetch[n].outcome = "stored" /\ C6_WithinTtl(n))
           /\ C6_Hits(n) => lastFetch[n].outcome = "stored"]_vars

\* a later call got the pools of the network without a request, within the
\* TTL of the fetch that stored them, after time had passed
C6_Witness ==
    /\ \E n \in CacheNetworks :
           /\ taskPc[1][n] = "done"
           /\ taskLog[1][n] = <<>>
           /\ IsScore(taskRes[1][n])
           /\ lastFetch[n].outcome = "stored"
           /\ now > lastFetch[n].t
           /\ C6_WithinTtl(n)
    /\ callNo >= 2

\* C7 as stated: a pool request answered with 429 is sent once more after
\* the wait, and the outcome of the fetch is that of the second answer.
C7_Original ==
    \A n \in Networks :
        (taskPc[1][n] = "done" /\ taskLog[1][n] # <<>> /\ taskLog[1][n][1] = 429) =>
            Len(taskLog[1][n]) = 2

\* the networks of the call whose analysis ended with a score
C8_Completed == {n \in Networks : taskPc[1][n] = "done" /\ IsScore(taskRes[1][n])}

\* C8 as stated: when the caller's timeout fires while analyses are pending,
\* the result is built from the networks that had completed.
C8_Original ==
    (aggPc[1] = "cancelled" /\ C8_Completed # {}) =>
        /\ result[1].kind = "EnhancedLiquidityData"
        /\ {result[1].chain_scores[i].chain_id : i \in 1..Len(result[1].chain_scores)}
               = C8_Completed

\* the analyses that hold the semaphore
C9_InFlight == {n \in Networks : taskPc[1][n] \in {"request", "backoff"}}

\* C9: at most 2 analyses of a call hold the semaphore at any time, and the
\* call starts one analysis for every network of its address map: each of
\* them has ended when gather returns.
C9_BoundedFanOut ==
    /\ Cardinality(C9_InFlight) <= 2
    /\ aggPc[1] # "idle" =>
           \A n \in Networks : InMap(addresses[1], n) <=> taskPc[1][n] # "none"
    /\ aggPc[1] = "done" =>
           \A n \in Networks : InMap(addresses[1], n) => taskPc[1][n] = "done"

\* two analyses hold the semaphore and a third waits for it
C9_Witness ==
    /\ Cardinality(C9_InFlight) = 2
    /\ \E n \in Networks : taskPc[1][n] = "waiting"
    /\ Len(addresses[1]) = 3

\* the networks of the call whose analysis gave a score, and those whose
\* analysis gave none after a request
C10_Succeeded == {n \in Networks : InMap(addresses[1], n) /\ IsScore(taskRes[1][n])}

C10_Failed ==
    {n \in Networks : InMap(addresses[1], n) /\ ~IsScore(taskRes[1][n]) /\ taskLog[1][n] # <<>>}

\* C10: when gather has returned and at least one network gave a score, the
\* call returns a result whose chain_scores are exactly the scores of the
\* networks that succeeded, each as its analysis returned it.
C10_FailureIsolation ==
    (aggPc[1] = "done" /\ C10_Succeeded # {}) =>
        /\ result[1].kind = "EnhancedLiquidityData"
        /\ Len(result[1].chain_scores) = Cardinality(C10_Succeeded)
        /\ {result[1].chain_scores[i] : i \in 1..Len(result[1].chain_scores)}
               = {taskRes[1][n] : n \in C10_Succeeded}

\* a network whose fetch failed comes before one that gave a score, and one
\* whose fetch was answered 200 but gave no score (null reserve, no pools)
\* is in the call too
C10_Witness ==
    /\ aggPc[1] = "done"
    /\ result[1].kind = "EnhancedLiquidityData"
    /\ \E f, g \in C10_Failed : \E n \in C10_Succeeded :
           /\ NetworkIndex(f) < NetworkIndex(n)
           /\ taskLog[1][f][Len(taskLog[1][f])] # 200
           /\ taskLog[1][g][Len(taskLog[1][g])] = 200
           /\ lastFetch[g].outcome = "stored"

\* the pool list the fetch of the network handed to the analysis of the call:
\* the stored list after a fetch that stored one (or a cache hit), no pools
\* after a fetch that failed
C11_Pools(n) ==
    IF lastFetch[n].outcome = "stored" THEN cache[CacheKey(n)].data ELSE <<>>

C11_Listed ==
    IF result[1].kind = "EnhancedLiquidityData"
    THEN {result[1].chain_scores[i].chain_id : i \in 1..Len(result[1].chain_scores)}
    ELSE {}

\* C11: a network whose pool fetch returned no pools has no score and is not
\* in chain_scores; when no network of the call has a score the call returns
\* None, not a result and not an exception.
C11_AbsentResult ==
    aggPc[1] = "done" =>
        /\ \A n \in Networks :
               (InMap(addresses[1], n) /\ C11_Pools(n) = <<>>) =>
                   ~IsScore(taskRes[1][n]) /\ n \notin C11_Listed
        /\ (\A n \in Networks : ~IsScore(taskRes[1][n])) => result[1] = NoneVal

\* the only network of the call was answered 200 with an empty pool list
C11_Witness ==
    /\ aggPc[1] = "done"
    /\ Len(addresses[1]) = 1
    /\ lastFetch[addresses[1][1]].outcome = "stored"
    /\ taskLog[1][addresses[1][1]] = <<200>>
    /\ C11_Pools(addresses[1][1]) = <<>>
    /\ result[1] = NoneVal

\* the scores that went into the result of this state
C12_Inputs ==
    IF ret.kind = "scores" THEN arg.scores
    ELSE IF ret.kind = "aggregate" THEN SelectSeq(ret.chain_results, IsScore)
    ELSE <<>>

C12_WeightedSum(scores) ==
    SumSeq([i \in 1..Len(scores) |-> scores[i].final_score * scores[i].tvl_usd])

C12_TvlSum(scores) == SumSeq([i \in 1..Len(scores) |-> scores[i].tvl_usd])

C12_ScoreSum(scores) == SumSeq([i \in 1..Len(scores) |-> scores[i].final_score])

C12_EqualTvl(scores) == \A i, j \in 1..Len(scores) : scores[i].tvl_usd = scores[j].tvl_usd

\* three networks of equal TVL with the scores 9.0, 6.0 and 3.0
C12_ScenarioD(scores) ==
    /\ Len(scores) = 3
    /\ C12_EqualTvl(scores)
    /\ \E i, j, k \in 1..3 :
           /\ {i, j, k} = {1, 2, 3}
           /\ scores[i].final_score = 90
           /\ scores[j].final_score = 60
           /\ scores[k].final_score = 30

C12_Holds(scores, data) ==
    /\ data.kind = "EnhancedLiquidityData"
    /\ data.global_risk_score = Frac(C12_WeightedSum(scores), C12_TvlSum(scores))
    /\ C12_EqualTvl(scores) =>
           data.global_risk_score.num * Len(scores)
               = C12_ScoreSum(scores) * data.global_risk_score.den
    /\ C12_ScenarioD(scores) =>
           /\ FracEq(data.global_risk_score, 60)
           /\ FracEq(data.avg_score_per_chain, 60)
           /\ data.diversification_good

\* C12: global_risk_score = sum(final_score x tvl_usd) / sum(tvl_usd) over
\* the successful networks; with equal TVLs it is the arithmetic mean of the
\* final scores; scores 9.0, 6.0, 3.0 at equal TVL give mean 6.0, global
\* score 6.0 and diversification_good.
C12_GlobalScore ==
    C12_Inputs # <<>> => C12_Holds(C12_Inputs, ret.result)

\* the three scores of the scenario at equal TVL
C12_Witness ==
    /\ ret.kind = "scores"
    /\ C12_ScenarioD(arg.scores)
    /\ FracEq(ret.result.global_risk_score, 60)
    /\ ret.result.diversification_good

\* C13: whatever the order in which the analyses ended, chain_scores holds
\* the scores of the networks that succeeded, each once, by descending
\* tvl_usd, networks of equal TVL in the order of the address map: the list
\* is fixed by the per-network results alone.
C13_DeterministicOrder ==
    (aggPc[1] = "done" /\ result[1].kind = "EnhancedLiquidityData") =>
        /\ \A i \in 1..Len(result[1].chain_scores) :
               /\ InMap(addresses[1], result[1].chain_scores[i].chain_id)
               /\ result[1].chain_scores[i] = taskRes[1][result[1].chain_scores[i].chain_id]
        /\ \A n \in Networks :
               IsScore(taskRes[1][n]) =>
                   \E i \in 1..Len(result[1].chain_scores) :
                       result[1].chain_scores[i].chain_id = n
        /\ \A i, j \in 1..Len(result[1].chain_scores) :
               i < j =>
                   \/ result[1].chain_scores[i].tvl_usd > result[1].chain_scores[j].tvl_usd
                   \/ /\ result[1].chain_scores[i].tvl_usd = result[1].chain_scores[j].tvl_usd
                      /\ NetworkIndex(result[1].chain_scores[i].chain_id)
                             < NetworkIndex(result[1].chain_scores[j].chain_id)

\* three scores whose order in the address map is not their order by TVL
C13_Witness ==
    /\ aggPc[1] = "done"
    /\ result[1].kind = "EnhancedLiquidityData"
    /\ Len(result[1].chain_scores) = 3
    /\ \E i \in 1..2 :
           NetworkIndex(result[1].chain_scores[i].chain_id)
               > NetworkIndex(result[1].chain_scores[i + 1].chain_id)

\* a 200 answer with a pool list whose exchange items all carry an id
C14_WellFormed(r) ==
    /\ r.status = 200
    /\ r.body.has_data
    /\ r.body.has_included =>
           \A i \in 1..Len(r.body.included) :
               r.body.included[i].type = "dex" => r.body.included[i].has_id

\* C14: for every answer other than a well-formed 200 (another status, a
\* transport failure, a body without pool list, a malformed exchange block)
\* get_geckoterminal_pools returns the empty list and raises nothing.
C14_NeverRaises ==
    ret.kind = "fetch" =>
        /\ ~ret.outcome.raised
        /\ ~C14_WellFormed(arg.response) => ret.outcome.pools = <<>> /\ ~ret.outcome.store

\* a 200 answer with a pool list and a malformed exchange block
C14_Witness ==
    /\ ret.kind = "fetch"
    /\ arg.response.status = 200
    /\ arg.response.body.has_data
    /\ arg.response.body.data # <<>>
    /\ ~C14_WellFormed(arg.response)
    /\ ret.outcome.pools = <<>>

\* the search terms, by position, that found the token on the network
C15_Found(n) ==
    {j \in 1..Len(SearchTerms(discovery.coin)) : discovery.probeRes[<<n, j>>] # NoneVal}

C15_First(n) == CHOOSE j \in C15_Found(n) : \A i \in C15_Found(n) : j <= i

\* the call has searched (its map does not come from the cache) and returned
C15_Searched ==
    /\ discovery.pc = "done"
    /\ \E p \in AllProbes : discovery.probePc[p] = "done"

\* C15: the map returned by a discover_token_addresses call that searched
\* has as keys the networks with a discovered address or a static address of
\* the coin; the value is the address of the first search term (in the order
\* of the terms) that found one, the static address where none did; a
\* network with neither is absent.
C15_MergePolicy ==
    C15_Searched =>
        /\ DOMAIN discovery.out
               = {n \in DiscoveryNetworks : C15_Found(n) # {}} \cup StaticNetworks(discovery.coin)
        /\ \A n \in DOMAIN discovery.out :
               IF n \in DiscoveryNetworks /\ C15_Found(n) # {}
               THEN discovery.out[n]
                        = FoundAddress(SearchTerms(discovery.coin)[C15_First(n)])
               ELSE discovery.out[n] = AddressOf(n)

\* a network with a static address found by the second term only, a network
\* without static address found by neither, static networks that were not found
C15_Witness ==
    /\ C15_Searched
    /\ discovery.coin = "tether"
    /\ C15_Found("eth") = {2}
    /\ discovery.out["eth"] = FoundAddress("tether")
    /\ \E n \in DiscoveryNetworks : n \notin DOMAIN discovery.out
    /\ "bsc" \in DOMAIN discovery.out

\* the probes that have started and not ended
C16_Running == {p \in AllProbes : discovery.probePc[p] = "running"}

\* C16: at most 2 probes of a discover_token_addresses call have started
\* and not ended, and each of them holds a permit of the semaphore.
C16_BoundedDiscovery ==
    discovery.pc = "gather" =>
        /\ Cardinality(C16_Running) <= 2
        /\ Cardinality(C16_Running) + discovery.sem = 2

\* two probes run and others wait for the semaphore
C16_Witness ==
    /\ discovery.pc = "gather"
    /\ Cardinality(C16_Running) = 2
    /\ Cardinality({p \in AllProbes : discovery.probePc[p] = "waiting"}) >= 2

\* the exchanges of a pool list and the summed liquidity of one of them
C17_Exchanges(pools) == {pools[i].dex_name : i \in 1..Len(pools)}

RECURSIVE C17_LiquidityOn(_, _)
C17_LiquidityOn(pools, dex_name) ==
    IF pools = <<>> THEN 0
    ELSE (IF Head(pools).dex_name = dex_name THEN Head(pools).reserve_in_usd ELSE 0)
             + C17_LiquidityOn(Tail(pools), dex_name)

C17_Largest(pools) ==
    CHOOSE m \in {C17_LiquidityOn(pools, d) : d \in C17_Exchanges(pools)} :
        \A d \in C17_Exchanges(pools) : C17_LiquidityOn(pools, d) <= m

C17_Holds(pools, total, dex) ==
    /\ dex.total_dex_count = Cardinality(C17_Exchanges(pools))
    /\ dex.dexs_over_100k
           = Cardinality({d \in C17_Exchanges(pools) : C17_LiquidityOn(pools, d) >= 100})
    /\ dex.largest_dex_percent.den > 0
    /\ dex.largest_dex_percent.num >= 0
    /\ dex.largest_dex_percent.num <= 100 * dex.largest_dex_percent.den
    /\ IF pools = <<>>
       THEN dex.total_dex_count = 0 /\ dex.dexs_over_100k = 0
                /\ dex.largest_dex_percent.num = 0
       ELSE IF total = 0 THEN dex.largest_dex_percent.num = 0
            ELSE dex.largest_dex_percent = Frac(C17_Largest(pools) * 100, total)

C18_FirstAppears(pools, dex_name) ==
    CHOOSE i \in 1..Len(pools) :
        pools[i].dex_name = dex_name /\ \A j \in 1..(i - 1) : pools[j].dex_name # dex_name

C18_Listed(top) == {top[i].name : i \in 1..Len(top)}

C18_Holds(pools, top) ==
    /\ Len(top) = Min2(5, Cardinality(C17_Exchanges(pools)))
    /\ C18_Listed(top) \subseteq C17_Exchanges(pools)
    /\ Cardinality(C18_Listed(top)) = Len(top)
    /\ \A i \in 1..Len(top) : top[i].liquidity_usd = C17_LiquidityOn(pools, top[i].name)
    /\ \A i \in 1..(Len(top) - 1) : top[i].liquidity_usd >= top[i + 1].liquidity_usd
    /\ \A d \in C17_Exchanges(pools) \ C18_Listed(top) :
           C17_LiquidityOn(pools, d) <= top[Len(top)].liquidity_usd
    /\ \A i \in 1..Len(top) : \A j \in (i + 1)..Len(top) :
           top[i].liquidity_usd = top[j].liquidity_usd =>
               C18_FirstAppears(pools, top[i].name) < C18_FirstAppears(pools, top[j].name)

\* C18: top_dexs has min(5, number of distinct exchanges) entries, one per
\* exchange with its summed liquidity, in non-increasing order of liquidity;
\* every omitted exchange has at most the liquidity of the last listed one,
\* and exchanges of equal liquidity are in the order of their first
\* appearance in the pool list.
C18_TopFive ==
    (ret.kind = "pools" /\ ret.dex_analysis # NoneVal) =>
        C18_Holds(arg.pools, ret.dex_analysis.top_dexs)

\* seven exchanges, five listed: the largest one, third in the input, comes
\* first, and the tied ones follow in the order of the input
C18_Witness ==
    /\ ret.kind = "pools"
    /\ ret.dex_analysis # NoneVal
    /\ ret.dex_analysis.total_dex_count = 7
    /\ Len(ret.dex_analysis.top_dexs) = 5
    /\ ret.dex_analysis.top_dexs[1].name = "Sushiswap"
    /\ ret.dex_analysis.top_dexs[2].name = "Uniswap V3"
    /\ ret.dex_analysis.top_dexs[3].name = "Curve"
    /\ ret.dex_analysis.top_dexs[2].liquidity_usd = ret.dex_analysis.top_dexs[3].liquidity_usd

\* C19: analyze_chain_liquidity returns no score for a pool list without
\* liquidity, also a non-empty one; every score it returns has tvl_usd > 0
\* and a base_score of at least 1.5, never 0.0; and every
\* EnhancedLiquidityData has total_liquidity_usd > 0.
C19_UnreachableFloor ==
    /\ \A s \in ScoresReturned : IsScore(s) => s.tvl_usd > 0 /\ s.base_score >= 15
    /\ (ret.kind = "pools" /\ ~HasBadReserve(arg.pools) /\ SumReserves(arg.pools) = 0) =>
           ret.score = NoneVal
    /\ (ret.kind \in {"aggregate", "scores"} /\ ret.result.kind = "EnhancedLiquidityData") =>
           ret.result.total_liquidity_usd > 0

\* a list of several pools, all of liquidity 0, gives no score
C19_Witness ==
    /\ ret.kind = "pools"
    /\ Len(arg.pools) >= 2
    /\ \A i \in 1..Len(arg.pools) : arg.pools[i].numeric /\ arg.pools[i].reserve_in_usd = 0
    /\ ret.score = NoneVal

\* the pool list is one of scenario A: $150,000,000, four exchanges, each
\* above $100,000, the largest with 40% of the liquidity
C20_ScenarioA(score) ==
    /\ score.tvl_usd = 150000
    /\ score.dex_analysis.total_dex_count = 4
    /\ score.dex_analysis.dexs_over_100k = 4
    /\ \A i \in 1..Len(score.dex_analysis.top_dexs) :
           score.dex_analysis.top_dexs[i].liquidity_usd > 100
    /\ FracEq(score.dex_analysis.largest_dex_percent, 40)

C20_Outcome(score) ==
    /\ score.base_score = 95
    /\ DOMAIN score.adjustments = {"dex_diversity_bonus"}
    /\ score.adjustments["dex_diversity_bonus"] = 10
    /\ score.final_score = 100
    /\ score.risk_level = "excellent"
    /\ score.risk_color = "green"
    /\ score.critical_warning = FALSE

\* C20 as stated: every pool list of scenario A has base 9.5, the diversity
\* bonus as its only adjustment, final score 10.0, excellent, green, no
\* critical warning.
C20_Original ==
    (ret.kind = "pools" /\ IsScore(ret.score) /\ C20_ScenarioA(ret.score)) =>
        C20_Outcome(ret.score)

\* C20: every pool list of scenario A in which at most 50% of the liquidity
\* is in volatile-stable pools has base 9.5, the diversity bonus +1.0 as its
\* only adjustment, final score 10.0, level excellent with color green, and
\* critical_warning false; with more than 50% the volatile pairing penalty
\* is a second adjustment and the final score is 9.5.
C20_ScenarioAStablePairs ==
    (ret.kind = "pools" /\ IsScore(ret.score) /\ C20_ScenarioA(ret.score)) =>
        IF FracGT(ret.score.pool_composition.volatile_stable_percent, 50)
        THEN /\ DOMAIN ret.score.adjustments = {"dex_diversity_bonus", "volatile_pairing_risk"}
             /\ ret.score.final_score = 95
        ELSE C20_Outcome(ret.score)

\* a scenario A list with exactly half of its liquidity in volatile-stable pools
C20_Witness ==
    /\ ret.kind = "pools"
    /\ IsScore(ret.score)
    /\ C20_ScenarioA(ret.score)
    /\ FracEq(ret.score.pool_composition.volatile_stable_percent, 50)
    /\ C20_Outcome(ret.score)

\* the pool list is one of scenario B: $40,000, all on one exchange
C21_ScenarioB(score) ==
    /\ score.tvl_usd = 40
    /\ score.dex_analysis.total_dex_count = 1
    /\ FracEq(score.dex_analysis.largest_dex_percent, 100)

C21_Penalties ==
    [k \in {"liquidity_centralization", "lp_centralization", "drain_event_history",
            "flash_loan_risk", "no_monitoring"} |->
        CASE k = "drain_event_history" -> -30
          [] k = "no_monitoring" -> -10
          [] OTHER -> -20]

C21_Final(score) ==
    /\ score.base_score = 15
    /\ score.final_score = 0
    /\ score.risk_level = "critical"
    /\ score.risk_color = "red"
    /\ score.critical_warning = TRUE

C21_Outcome(score) ==
    /\ score.adjustments = C21_Penalties
    /\ score.base_score + DictSum(score.adjustments) = -85
    /\ C21_Final(score)

\* C21 as stated: every pool list of scenario B has base 1.5, the five
\* penalties as its adjustments, raw total -8.5, final score 0.0, critical,
\* red, critical warning.
C21_Original ==
    (ret.kind = "pools" /\ IsScore(ret.score) /\ C21_ScenarioB(ret.score)) =>
        C21_Outcome(ret.score)

\* C21: every pool list of scenario B has base 1.5, final score 0.0, level
\* critical with color red and critical_warning true; with at most 50% of
\* the liquidity in volatile-stable pools its adjustments are the five
\* penalties -2.0, -2.0, -3.0, -2.0, -1.0 and the raw total is -8.5, with
\* more than 50% the volatile pairing penalty -1.0 is a sixth adjustment and
\* the raw total is -9.5.
C21_ScenarioBStablePairs ==
    (ret.kind = "pools" /\ IsScore(ret.score) /\ C21_ScenarioB(ret.score)) =>
        IF FracGT(ret.score.pool_composition.volatile_stable_percent, 50)
        THEN /\ C21_Final(ret.score)
             /\ DOMAIN ret.score.adjustments
                    = DOMAIN C21_Penalties \cup {"volatile_pairing_risk"}
             /\ ret.score.base_score + DictSum(ret.score.adjustments) = -95
        ELSE C21_Outcome(ret.score)

\* a stable-stable pool of $40,000 and an empty pool on the same exchange
C21_Witness ==
    /\ ret.kind = "pools"
    /\ IsScore(ret.score)
    /\ C21_ScenarioB(ret.score)
    /\ Len(arg.pools) = 2
    /\ FracEq(ret.score.pool_composition.stable_stable_percent, 100)
    /\ C21_Outcome(ret.score)

\* the key of the network's pool list, and the lists a request for the
\* network may bring
C22_Key(n) == <<"gt_pools", n, AddressOf(n)>>

C22_ListsOf(n) == {PoolsOutcome(make_request_result(r)).pools : r \in Responses(n)}

\* an entry of the key is stored and less than one hour old
C22_Unexpired(n) ==
    /\ C22_Key(n) \in DOMAIN cache
    /\ now < cache[C22_Key(n)].ts + TicksPerHour

C22_CallBegins(n) == taskPc[1][n] = "waiting" /\ taskPc'[1][n] # "waiting"

C22_RequestEnds(n) == taskPc[1][n] \in {"request", "backoff"} /\ taskPc'[1][n] = "done"

\* C22: a get_geckoterminal_pools call for a key whose entry was stored less
\* than one hour ago returns the stored list, a list fetched for this key,
\* and issues no request; a call at or after one hour issues a new request,
\* and what it returns is what that request brought, not the expired entry.
C22_CacheTtl ==
    [][\A n \in TtlNetworks :
           /\ C22_CallBegins(n) =>
                  IF C22_Unexpired(n)
                  THEN /\ taskPc'[1][n] = "done"
                       /\ taskRes'[1][n] = ScoreChain(n, cache[C22_Key(n)].data)
                       /\ cache[C22_Key(n)].data \in C22_ListsOf(n)
                       /\ taskLog'[1][n] = <<>>
                       /\ lastFetch' = lastFetch
                       /\ cache' = cache
                  ELSE /\ taskPc'[1][n] = "request"
                       /\ lastFetch'[n] = [outcome |-> "pending", t |-> now]
           /\ C22_RequestEnds(n) =>
                  /\ Len(taskLog'[1][n]) = 1
                  /\ IF lastFetch'[n].outcome = "stored"
                     THEN /\ cache'[C22_Key(n)].ts = now
                          /\ taskRes'[1][n] = ScoreChain(n, cache'[C22_Key(n)].data)
                     ELSE taskRes'[1][n] = NoneVal /\ cache' = cache]_vars

\* the second call finds the entry of one network exactly one hour old and
\* requests it again, and the younger entry of the other network is returned
C22_Witness ==
    /\ callNo = 2
    /\ {C22_Key("eth"), C22_Key("bsc")} \subseteq DOMAIN cache
    /\ cache[C22_Key("eth")].ts + TicksPerHour = now
    /\ taskPc[1]["eth"] = "request"
    /\ now < cache[C22_Key("bsc")].ts + TicksPerHour
    /\ taskPc[1]["bsc"] = "done"
    /\ taskRes[1]["bsc"] = ScoreChain("bsc", cache[C22_Key("bsc")].data)
    /\ taskLog[1]["bsc"] = <<>>

\* a request with refresh_cache=true is open
C23_Refreshing == arg.kind = "request" /\ arg.refresh_cache

\* C23 as stated: when a request with refresh_cache=true begins, no entry of
\* the coin's pool keys is left in the cache, and while it is answered no
\* pool list is taken from the cache.
C23_Original ==
    [][/\ (arg'.kind = "request" /\ arg'.refresh_cache /\ callNo' # callNo) =>
              \A n \in Networks : CacheKey(n) \notin DOMAIN cache'
       /\ C23_Refreshing =>
              \A n \in Networks : ~(taskPc[1][n] = "waiting" /\ taskPc'[1][n] = "done")]_vars

\* the levels whose band, bounds included, contains the score, and the rank
\* of a level, the best first
C24_Bands(score) ==
    {risk_thresholds[i].level : i \in {j \in 1..Len(risk_thresholds) :
        risk_thresholds[j].min_score <= score /\ score <= risk_thresholds[j].max_score}}

C24_Rank(level) == CHOOSE i \in 1..Len(risk_thresholds) : risk_thresholds[i].level = level

\* C24 as stated: every score from 0 to 10 gets a level whose band contains
\* it, and no lower score gets a better level.
C24_Original ==
    ret.kind = "level" =>
        /\ ret.level \in C24_Bands(arg.score)
        /\ \A s \in 0..arg.score : C24_Rank(determine_risk_level(s)) >= C24_Rank(ret.level)

\* the latest answer is that of dispatch, for this key
C25_Key == RateKey(limiter.out.limit_type, limiter.out.identifier)

C25_Limit(limit_type) ==
    CASE limit_type = "heavy_operations_per_ip" -> 5
      [] limit_type = "risk_assessments_per_ip" -> 20
      [] limit_type = "api_calls_per_ip" -> 100

\* C25: for every client and limit type (5, 20, 100 per hour), a
\* check_rate_limit call is allowed exactly when it is among the first
\* `limit` calls of its window, where a call at or after the end of a window
\* is the first of a new one; dispatch answers 429 without invoking the
\* handler exactly when the call is not allowed.
C25_RateLimit ==
    limiter.out.op = "dispatch" =>
        /\ limiter.out.rate_limit_result.current = limiter.window[C25_Key].calls
        /\ limiter.out.rate_limit_result.allowed
               = (limiter.window[C25_Key].calls <= C25_Limit(limiter.out.limit_type))
        /\ limiter.out.handler_invoked = limiter.out.rate_limit_result.allowed
        /\ (limiter.out.status_code = 429) = ~limiter.out.rate_limit_result.allowed

\* the sixth heavy operation of a window that began after the start is
\* answered 429 while the other client has a counter of its own
C25_Witness ==
    /\ limiter.out.op = "dispatch"
    /\ limiter.out.limit_type = "heavy_operations_per_ip"
    /\ limiter.out.identifier = "10.0.0.1"
    /\ limiter.window[C25_Key].calls = 6
    /\ limiter.window[C25_Key].start >= TicksPerHour
    /\ limiter.out.status_code = 429
    /\ \E k \in DOMAIN limiter.local_cache : k[3] = "10.0.0.2"

\* the requests that check_rate_limit counted for the key in the window
\* that has not expired
C26_Counted(key) ==
    IF key \in DOMAIN limiter.window /\ now < limiter.window[key].start + TicksPerHour
    THEN limiter.window[key].calls
    ELSE 0

C26_Reports(status, counted, limit) ==
    /\ status.current = counted
    /\ status.remaining = Max2(0, limit - counted)
    /\ status.allowed = (counted < limit)

\* C26 as stated: check_specific_rate_limit reports current = the number of
\* requests counted for the identifier in the unexpired window, remaining =
\* max(0, limit - current) and allowed = (current < limit).
C26_Original ==
    limiter.out.op = "check" =>
        C26_Reports(limiter.out.status, C26_Counted(C25_Key), C25_Limit(limiter.out.limit_type))

\* the scoring pipelines in flight on the instance: the analyses of all open
\* calls that hold a semaphore
C27_InFlight == {p \in Slots \X Networks : taskPc[p[1]][p[2]] \in {"request", "backoff"}}

\* C27 as stated: at most 2 scoring pipelines are in flight on the shared
\* instance, also when several calls are open at the same time.
C27_Original == Cardinality(C27_InFlight) <= 2

\* C28 as stated: every symbol of known_stablecoins, in any letter case, is
\* classified "stable" by _classify_token.
C28_Original ==
    (ret.kind = "classify" /\ StrLower(arg.token_symbol) \in known_stablecoins)
        => ret.class = "stable"

C29_Holds(s) ==
    /\ s.dex_analysis.dexs_over_100k = 0
    /\ s.risk_factors.concentration_risk
    /\ s.risk_factors.flash_loan_vulnerability
    /\ s.risk_factors.no_monitoring_controls
    /\ s.final_score = 0
    /\ s.risk_level = "critical"
    /\ s.risk_color = "red"

\* C29: every produced ChainLiquidityScore with critical_warning = true (a TVL
\* below $100,000) has dexs_over_100k = 0, concentration_risk,
\* flash_loan_vulnerability and no_monitoring_controls set, final_score 0.0,
\* risk level critical and color red.
C29_CriticalWarning ==
    \A s \in ScoresReturned : (IsScore(s) /\ s.critical_warning) => C29_Holds(s)

\* a score with the warning over two pools with a TVL of $50,000 or more,
\* where no drain is suspected
C29_Witness ==
    /\ ret.kind = "pools"
    /\ Len(arg.pools) = 2
    /\ IsScore(ret.score)
    /\ ret.score.critical_warning
    /\ ret.score.tvl_usd >= 50
    /\ ret.score.risk_factors.recent_drain_events = <<>>

\* the sum of the two centralization penalties of an adjustment map
C30_Penalty(adjustments) ==
    (IF "liquidity_centralization" \in DOMAIN adjustments
     THEN adjustments["liquidity_centralization"] ELSE 0)
        + (IF "lp_centralization" \in DOMAIN adjustments
           THEN adjustments["lp_centralization"] ELSE 0)

====
